---- MODULE Spec2Model ----
(***************************************************************************)
(* Receipt validators of the shopping-receipt system:                      *)
(*   src/json_receipt/json_validator.py  (JSONReceiptValidator)            *)
(*   src/xml_receipt/xml_validator.py    (XMLReceiptValidator)             *)
(*                                                                         *)
(* A validator object is a state machine: generate_report runs the schema  *)
(* check, the business rules one after the other, the type check and the   *)
(* totals, appending to self.errors / self.warnings, and returns a report. *)
(*                                                                         *)
(* The installer, src/hadoop_installation/hadoop_setup.py                  *)
(* (HadoopInstaller.install), is a second machine with its own             *)
(* specification, InstallSpec.                                             *)
(*                                                                         *)
(* Python values are records [k, n, s, d, l]:                              *)
(*   k  the type: "none" "bool" "int" "float" "str" "dict" "list"          *)
(*   n  the number: a bool as 0/1, an int as itself, a float in thousandths*)
(*   s  a str, as the sequence of its characters                           *)
(*   d  a dict, as the sequence of its entries [p, key, val] in insertion  *)
(*      order; the key is the string p \o key, p being "", "@" or "#"      *)
(*   l  a list, as the sequence of its elements                            *)
(* Amounts are decimal numbers with at most three decimals.  Where two     *)
(* amounts are exactly 0.01 apart the binary floating-point comparison     *)
(* `> 0.01` depends on the rounding of the operands: ExceedsEpsilon        *)
(* decides those pairs as binary64 does (RoundedOver).                     *)
(***************************************************************************)
EXTENDS Integers, Sequences, FiniteSets, TLC

\* ------------------------------------------------------------ bounds

\* generate_report calls made on one validator object
MaxCalls == 2

\* ------------------------------------------------------------ values

PyNone == [k |-> "none", n |-> 0, s |-> <<>>, d |-> <<>>, l |-> <<>>]

PyBool(b) == [k |-> "bool", n |-> IF b THEN 1 ELSE 0, s |-> <<>>, d |-> <<>>, l |-> <<>>]

PyInt(i) == [k |-> "int", n |-> i, s |-> <<>>, d |-> <<>>, l |-> <<>>]

\* a float, given in thousandths
PyFloat(m) == [k |-> "float", n |-> m, s |-> <<>>, d |-> <<>>, l |-> <<>>]

PyStr(chars) == [k |-> "str", n |-> 0, s |-> chars, d |-> <<>>, l |-> <<>>]

PyDict(entries) == [k |-> "dict", n |-> 0, s |-> <<>>, d |-> entries, l |-> <<>>]

PyList(elems) == [k |-> "list", n |-> 0, s |-> <<>>, d |-> <<>>, l |-> elems]

\* a dict entry under a plain key
E(key, val) == [p |-> "", key |-> key, val |-> val]

\* bool(v)
Truthy(v) ==
  CASE v.k = "none" -> FALSE
    [] v.k \in {"bool", "int", "float"} -> v.n # 0
    [] v.k = "str" -> Len(v.s) > 0
    [] v.k = "dict" -> Len(v.d) > 0
    [] OTHER -> Len(v.l) > 0

\* isinstance(v, int): bool is a subclass of int
IsInt(v) == v.k \in {"int", "bool"}

\* isinstance(v, (int, float))
IsNumber(v) == v.k \in {"int", "bool", "float"}

\* the value of a number, in thousandths
Mills(v) == IF v.k = "float" THEN v.n ELSE v.n * 1000

Abs(x) == IF x < 0 THEN -x ELSE x

\* len(v) is defined for str, dict and list
Sized(v) == v.k \in {"str", "dict", "list"}

PyLen(v) ==
  CASE v.k = "str" -> Len(v.s)
    [] v.k = "dict" -> Len(v.d)
    [] OTHER -> Len(v.l)

\* key in d, for a dict d
HasKeyP(v, p, key) == \E i \in 1..Len(v.d) : v.d[i].p = p /\ v.d[i].key = key

HasKey(v, key) == HasKeyP(v, "", key)

\* d.get(key, default), for a dict d
GetOr(v, key, default) ==
  IF HasKey(v, key)
  THEN v.d[CHOOSE i \in 1..Len(v.d) : v.d[i].p = "" /\ v.d[i].key = key].val
  ELSE default

\* d.get(key)
Get(v, key) == GetOr(v, key, PyNone)

\* d[key] = val: a new key is appended, an old key keeps its place
SetKeyP(entries, p, key, val) ==
  IF \E i \in 1..Len(entries) : entries[i].p = p /\ entries[i].key = key
  THEN [i \in 1..Len(entries) |->
          IF entries[i].p = p /\ entries[i].key = key
          THEN [p |-> p, key |-> key, val |-> val]
          ELSE entries[i]]
  ELSE Append(entries, [p |-> p, key |-> key, val |-> val])

\* the entries without key
DelKey(entries, key) ==
  LET keep == {i \in 1..Len(entries) : ~(entries[i].p = "" /\ entries[i].key = key)}
      RECURSIVE pick(_)
      pick(i) == IF i > Len(entries) THEN <<>>
                 ELSE IF i \in keep THEN <<entries[i]>> \o pick(i + 1)
                 ELSE pick(i + 1)
  IN pick(1)

\* ------------------------------------------------------------ strings

Digits == <<"0", "1", "2", "3", "4", "5", "6", "7", "8", "9">>

IsDigitChar(c) == \E i \in 1..10 : Digits[i] = c

DigitVal(c) == (CHOOSE i \in 1..10 : Digits[i] = c) - 1

\* str.isdigit(): not empty and every character a digit
isdigit(chars) == Len(chars) > 0 /\ \A i \in 1..Len(chars) : IsDigitChar(chars[i])

\* c in chars
HasChar(chars, c) == \E i \in 1..Len(chars) : chars[i] = c

\* str.startswith(prefix)
startswith(chars, prefix) ==
  Len(chars) >= Len(prefix) /\ SubSeq(chars, 1, Len(prefix)) = prefix

IsSpace(c) == c \in {" ", "\n", "\t"}

\* str.strip()
RECURSIVE lstrip(_)
lstrip(chars) ==
  IF chars # <<>> /\ IsSpace(Head(chars)) THEN lstrip(Tail(chars)) ELSE chars

RECURSIVE rstrip(_)
rstrip(chars) ==
  IF chars # <<>> /\ IsSpace(chars[Len(chars)])
  THEN rstrip(SubSeq(chars, 1, Len(chars) - 1))
  ELSE chars

strip(chars) == rstrip(lstrip(chars))

\* str.replace('Z', '+00:00')
RECURSIVE replaceZ(_)
replaceZ(chars) ==
  IF chars = <<>> THEN <<>>
  ELSE IF Head(chars) = "Z"
       THEN <<"+", "0", "0", ":", "0", "0">> \o replaceZ(Tail(chars))
       ELSE <<Head(chars)>> \o replaceZ(Tail(chars))

\* the number a string of digits reads as
RECURSIVE DigitsValue(_)
DigitsValue(chars) ==
  IF chars = <<>> THEN 0
  ELSE 10 * DigitsValue(SubSeq(chars, 1, Len(chars) - 1)) + DigitVal(chars[Len(chars)])

\* the position of the first c in chars, 0 when there is none
FirstPos(chars, c) ==
  IF HasChar(chars, c) THEN CHOOSE i \in 1..Len(chars) :
                              chars[i] = c /\ \A j \in 1..(i - 1) : chars[j] # c
  ELSE 0

\* int(str): an optional sign and digits, white space around them allowed.
\* [ok, v]; not ok is a ValueError
ParseInt(chars0) ==
  LET chars == strip(chars0)
      signed == chars # <<>> /\ Head(chars) \in {"+", "-"}
      body == IF signed THEN Tail(chars) ELSE chars
  IN IF isdigit(body)
     THEN [ok |-> TRUE,
           v |-> IF signed /\ Head(chars) = "-" THEN -DigitsValue(body) ELSE DigitsValue(body)]
     ELSE [ok |-> FALSE, v |-> 0]

\* float(str) of a decimal numeral with at most three decimals, in
\* thousandths: an optional sign, digits, an optional point and digits, at
\* least one digit in all.  [ok, v]; not ok is a ValueError
ParseFloat(chars0) ==
  LET chars == strip(chars0)
      signed == chars # <<>> /\ Head(chars) \in {"+", "-"}
      body == IF signed THEN Tail(chars) ELSE chars
      dot == FirstPos(body, ".")
      whole == IF dot = 0 THEN body ELSE SubSeq(body, 1, dot - 1)
      frac == IF dot = 0 THEN <<>> ELSE SubSeq(body, dot + 1, Len(body))
      ok == /\ Len(whole) + Len(frac) > 0
            /\ \A i \in 1..Len(whole) : IsDigitChar(whole[i])
            /\ \A i \in 1..Len(frac) : IsDigitChar(frac[i])
            /\ Len(frac) <= 3
      scale == CASE Len(frac) = 0 -> 1000 [] Len(frac) = 1 -> 100
                 [] Len(frac) = 2 -> 10 [] OTHER -> 1
      mag == DigitsValue(whole) * 1000 + DigitsValue(frac) * scale
  IN IF ok
     THEN [ok |-> TRUE, v |-> IF signed /\ Head(chars) = "-" THEN -mag ELSE mag]
     ELSE [ok |-> FALSE, v |-> 0]

\* ------------------------------------------------------------ dates

\* a datetime is <<year, month, day, hour, minute, second>>

IsLeap(y) == (y % 4 = 0 /\ y % 100 # 0) \/ y % 400 = 0

DaysIn(y, m) ==
  CASE m \in {4, 6, 9, 11} -> 30
    [] m = 2 -> IF IsLeap(y) THEN 29 ELSE 28
    [] OTHER -> 31

ValidDate(y, m, d) == y >= 1 /\ m \in 1..12 /\ d >= 1 /\ d <= DaysIn(y, m)

\* a > b for datetimes
RECURSIVE LaterFrom(_, _, _)
LaterFrom(a, b, i) ==
  IF i > 6 THEN FALSE
  ELSE IF a[i] # b[i] THEN a[i] > b[i]
  ELSE LaterFrom(a, b, i + 1)

Later(a, b) == LaterFrom(a, b, 1)

AllDigits(chars) == \A i \in 1..Len(chars) : IsDigitChar(chars[i])

\* the date part YYYY-MM-DD of an ISO string: [ok, y, m, d]
IsoDate(chars) ==
  LET shaped == /\ Len(chars) = 10
                /\ chars[5] = "-" /\ chars[8] = "-"
                /\ AllDigits(SubSeq(chars, 1, 4))
                /\ AllDigits(SubSeq(chars, 6, 7))
                /\ AllDigits(SubSeq(chars, 9, 10))
      y == DigitsValue(SubSeq(chars, 1, 4))
      m == DigitsValue(SubSeq(chars, 6, 7))
      d == DigitsValue(SubSeq(chars, 9, 10))
  IN IF shaped /\ ValidDate(y, m, d)
     THEN [ok |-> TRUE, y |-> y, m |-> m, d |-> d]
     ELSE [ok |-> FALSE, y |-> 0, m |-> 0, d |-> 0]

\* the time part HH:MM:SS of an ISO string: [ok, h, m, s]
IsoTime(chars) ==
  LET shaped == /\ Len(chars) = 8
                /\ chars[3] = ":" /\ chars[6] = ":"
                /\ AllDigits(SubSeq(chars, 1, 2))
                /\ AllDigits(SubSeq(chars, 4, 5))
                /\ AllDigits(SubSeq(chars, 7, 8))
      h == DigitsValue(SubSeq(chars, 1, 2))
      m == DigitsValue(SubSeq(chars, 4, 5))
      s == DigitsValue(SubSeq(chars, 7, 8))
  IN IF shaped /\ h <= 23 /\ m <= 59 /\ s <= 59
     THEN [ok |-> TRUE, h |-> h, m |-> m, s |-> s]
     ELSE [ok |-> FALSE, h |-> 0, m |-> 0, s |-> 0]

\* a UTC offset +HH:MM or -HH:MM
IsoOffset(chars) ==
  /\ Len(chars) = 6
  /\ chars[1] \in {"+", "-"}
  /\ chars[4] = ":"
  /\ AllDigits(SubSeq(chars, 2, 3)) /\ AllDigits(SubSeq(chars, 5, 6))
  /\ DigitsValue(SubSeq(chars, 2, 3)) <= 23
  /\ DigitsValue(SubSeq(chars, 5, 6)) <= 59

\* datetime.fromisoformat of YYYY-MM-DD, YYYY-MM-DD?HH:MM:SS and
\* YYYY-MM-DD?HH:MM:SS+HH:MM (? any one character): [ok, dt, aware], dt the
\* wall-clock fields as written; not ok is a ValueError
fromisoformat(chars) ==
  LET n == Len(chars)
      bad == [ok |-> FALSE, dt |-> <<0, 0, 0, 0, 0, 0>>, aware |-> FALSE]
      date == IsoDate(SubSeq(chars, 1, 10))
      time == IsoTime(SubSeq(chars, 12, 19))
  IN IF n \notin {10, 19, 25} \/ ~date.ok THEN bad
     ELSE IF n = 10
          THEN [ok |-> TRUE, dt |-> <<date.y, date.m, date.d, 0, 0, 0>>, aware |-> FALSE]
     ELSE IF ~time.ok \/ (n = 25 /\ ~IsoOffset(SubSeq(chars, 20, 25))) THEN bad
     ELSE [ok |-> TRUE,
           dt |-> <<date.y, date.m, date.d, time.h, time.m, time.s>>,
           aware |-> n = 25]

\* the pieces of chars between the separators c
RECURSIVE SplitOn(_, _)
SplitOn(chars, c) ==
  LET i == FirstPos(chars, c)
  IN IF i = 0 THEN <<chars>>
     ELSE <<SubSeq(chars, 1, i - 1)>> \o SplitOn(SubSeq(chars, i + 1, Len(chars)), c)

\* datetime.strptime(chars, '%Y-%m-%d'): four digits of year, one or two of
\* month and of day, nothing else: [ok, dt]; not ok is a ValueError
strptime_ymd(chars) ==
  LET parts == SplitOn(chars, "-")
      bad == [ok |-> FALSE, dt |-> <<0, 0, 0, 0, 0, 0>>]
      y == DigitsValue(parts[1])
      m == DigitsValue(parts[2])
      d == DigitsValue(parts[3])
  IN IF Len(parts) # 3 THEN bad
     ELSE IF ~(/\ Len(parts[1]) = 4 /\ AllDigits(parts[1])
               /\ Len(parts[2]) \in {1, 2} /\ AllDigits(parts[2])
               /\ Len(parts[3]) \in {1, 2} /\ AllDigits(parts[3])) THEN bad
     ELSE IF ~ValidDate(y, m, d) THEN bad
     ELSE [ok |-> TRUE, dt |-> <<y, m, d, 0, 0, 0>>]


\* ------------------------------------------------------------ findings

\* program constants
MinItems == 5

\* the tolerance 0.01, in thousandths
Epsilon == 10

\* the high-price threshold 100000, in thousandths
HighPrice == 100000000

\* One entry of self.errors or self.warnings: the rule r that appended it,
\* its message m, and what the message is formatted with: the 1-based item
\* number i (0: none), the values a and b, the exception e.
Finding(r, m, i, a, b) == [r |-> r, m |-> m, i |-> i, a |-> a, b |-> b, e |-> ""]

FindingExc(r, m, e) == [r |-> r, m |-> m, i |-> 0, a |-> PyNone, b |-> PyNone, e |-> e]

\* What one step appends, and the exception it ends with ("": none)
Result(errs, warns, exc) == [errs |-> errs, warns |-> warns, exc |-> exc]

Ok == Result(<<>>, <<>>, "")

Errs(errs) == Result(errs, <<>>, "")

Raise(exc) == Result(<<>>, <<>>, exc)

\* one step and then the next: an exception ends the sequence
Then(a, b) ==
  IF a.exc # "" THEN a ELSE Result(a.errs \o b.errs, a.warns \o b.warns, b.exc)

\* float(v): [exc, v], v in thousandths
float(v) ==
  CASE IsNumber(v) -> [exc |-> "", v |-> Mills(v)]
    [] v.k = "str" -> LET r == ParseFloat(v.s)
                      IN [exc |-> IF r.ok THEN "" ELSE "ValueError", v |-> r.v]
    [] OTHER -> [exc |-> "TypeError", v |-> 0]

\* int(v): [exc, v]; a float is truncated towards zero
int(v) ==
  CASE IsInt(v) -> [exc |-> "", v |-> v.n]
    [] v.k = "float" -> [exc |-> "", v |-> IF v.n >= 0 THEN v.n \div 1000
                                                   ELSE -((-v.n) \div 1000)]
    [] v.k = "str" -> LET r == ParseInt(v.s)
                      IN [exc |-> IF r.ok THEN "" ELSE "ValueError", v |-> r.v]
    [] OTHER -> [exc |-> "TypeError", v |-> 0]

\* a * b for numbers: an int when both are, else a float
Mul(a, b) ==
  IF IsInt(a) /\ IsInt(b) THEN PyInt(a.n * b.n)
  ELSE IF IsInt(a) THEN PyFloat(a.n * b.n)
  ELSE IF IsInt(b) THEN PyFloat(a.n * b.n)
  ELSE PyFloat((a.n * b.n) \div 1000)

\* The pairs of amounts of the receipts, in thousandths, that are 0.01 apart
\* as decimals and whose binary64 difference is above the binary64 0.01:
\* abs(100.01 - 100.0) and abs(99.99 - 100.0) are 0.010000000000005116
RoundedOver == {{100010, 100000}, {99990, 100000}}

\* abs(x - y) > 0.01 on floats, x and y in thousandths: off the boundary the
\* decimal difference decides; operands exactly 0.01 apart compare as their
\* rounded difference does (abs(3.01 - 3.0) is 0.009999999999999787)
ExceedsEpsilon(x, y) ==
  \/ Abs(x - y) > Epsilon
  \/ Abs(x - y) = Epsilon /\ {x, y} \in RoundedOver

\* sub occurs in chars
ContainsSub(chars, sub) ==
  \E i \in 1..(Len(chars) - Len(sub) + 1) : SubSeq(chars, i, i + Len(sub) - 1) = sub

\* `key in v`, chars the characters of key: [exc, val]
InTest(v, key, chars) ==
  CASE v.k = "dict" -> [exc |-> "", val |-> HasKey(v, key)]
    [] v.k = "str" -> [exc |-> "", val |-> ContainsSub(v.s, chars)]
    [] v.k = "list" -> [exc |-> "", val |-> \E i \in 1..Len(v.l) : v.l[i] = PyStr(chars)]
    [] OTHER -> [exc |-> "TypeError", val |-> FALSE]

\* what `for item in v` yields, for a sized v: the elements of a list, the
\* keys of a dict, the characters of a str
Iter(v) ==
  CASE v.k = "list" -> v.l
    [] v.k = "dict" -> [i \in 1..Len(v.d) |-> PyStr(<<v.d[i].key>>)]
    [] OTHER -> [i \in 1..Len(v.s) |-> PyStr(<<v.s[i]>>)]

GRAND_TOTAL == <<"g", "r", "a", "n", "d", "_", "t", "o", "t", "a", "l">>

SUBTOTAL == <<"s", "u", "b", "t", "o", "t", "a", "l">>

CREDIT_CARD == <<"C", "r", "e", "d", "i", "t", " ", "C", "a", "r", "d">>

RCPT_ == <<"R", "C", "P", "T", "_">>


\* ------------------------------------------------------------ JSON rules
\* JSONReceiptValidator.validate_business_rules, rule by rule, on
\* data = self.json_data (truthy).  A rule's Result holds what it appends
\* before it returns or raises.

\* Rule 1: Minimum 5 items required
json_rule1(data) ==
  IF data.k # "dict" THEN Raise("AttributeError")
  ELSE LET items == GetOr(data, "items", PyList(<<>>))
       IN IF ~Sized(items) THEN Raise("TypeError")
          ELSE IF PyLen(items) < MinItems
          THEN Errs(<<Finding("min_items", "Receipt must contain at least 5 items. Found",
                              0, PyInt(PyLen(items)), PyNone)>>)
          ELSE Result(<<>>, <<Finding("min_items", "Item count validation passed",
                                      0, PyInt(PyLen(items)), PyNone)>>, "")

\* Rule 2: Date validation (purchase date should not be in future)
json_rule2(data, now) ==
  LET purchase_date == Get(data, "purchase_date")
      parsed == fromisoformat(replaceZ(purchase_date.s))
  IN IF ~Truthy(purchase_date) THEN Ok
     ELSE IF purchase_date.k # "str" THEN Raise("AttributeError")
     ELSE IF ~parsed.ok
     THEN Errs(<<Finding("date", "Invalid date format", 0, purchase_date, PyNone)>>)
     ELSE IF Later(parsed.dt, now)
     THEN Errs(<<Finding("date", "Purchase date cannot be in the future", 0, PyNone, PyNone)>>)
     ELSE Ok

\* Rule 3: Total amount validation
json_rule3(data) ==
  LET total_amount == float(GetOr(data, "total_amount", PyInt(0)))
      pricing == GetOr(data, "pricing", PyDict(<<>>))
      present == InTest(pricing, "grand_total", GRAND_TOTAL)
      calculated_total == float(Get(pricing, "grand_total"))
  IN IF total_amount.exc # "" THEN Raise(total_amount.exc)
     ELSE IF present.exc # "" THEN Raise(present.exc)
     ELSE IF ~present.val THEN Ok
     ELSE IF pricing.k # "dict" THEN Raise("TypeError")
     ELSE IF calculated_total.exc # "" THEN Raise(calculated_total.exc)
     ELSE IF ExceedsEpsilon(total_amount.v, calculated_total.v)
     THEN Errs(<<Finding("total", "Total amount mismatch. Header, Pricing", 0,
                         PyFloat(total_amount.v), PyFloat(calculated_total.v))>>)
     ELSE Ok

\* Rule 4, one item: the quantity, unit price and subtotal checks
json_item(item, i) ==
  IF item.k # "dict" THEN Raise("AttributeError")
  ELSE
    LET quantity == GetOr(item, "quantity", PyInt(0))
        unit_price == GetOr(item, "unit_price", PyInt(0))
        subtotal == GetOr(item, "subtotal", PyInt(0))
        e1 == IF ~IsInt(quantity) \/ quantity.n <= 0
              THEN <<Finding("quantity", "Item: Quantity must be positive integer. Found",
                             i, quantity, PyNone)>>
              ELSE <<>>
        e2 == IF ~IsNumber(unit_price) \/ unit_price.n < 0
              THEN <<Finding("price", "Item: Unit price cannot be negative. Found",
                             i, unit_price, PyNone)>>
              ELSE <<>>
        expected_subtotal == Mul(quantity, unit_price)
        e3 == IF ExceedsEpsilon(Mills(subtotal), Mills(expected_subtotal))
              THEN <<Finding("subtotal", "Item: Subtotal calculation error. Expected, Found",
                             i, expected_subtotal, subtotal)>>
              ELSE <<>>
    IN \* quantity * unit_price, or subtotal minus it, is a TypeError
       \* unless all three are numbers
       IF ~(IsNumber(quantity) /\ IsNumber(unit_price) /\ IsNumber(subtotal))
       THEN Result(e1 \o e2, <<>>, "TypeError")
       ELSE Errs(e1 \o e2 \o e3)

\* Rule 4: Item validation: for i, item in enumerate(items), from item i on
RECURSIVE json_items_from(_, _)
json_items_from(items, i) ==
  IF i > Len(items) THEN Ok
  ELSE LET r == json_item(items[i], i)
           rest == json_items_from(items, i + 1)
       IN IF r.exc # "" THEN r
          ELSE Result(r.errs \o rest.errs, <<>>, rest.exc)

json_rule4(data) == json_items_from(Iter(GetOr(data, "items", PyList(<<>>))), 1)

\* Rule 5: Customer validation
json_rule5(data) ==
  LET customer == GetOr(data, "customer", PyDict(<<>>))
  IN IF customer.k # "dict" THEN Raise("AttributeError")
     ELSE IF Truthy(Get(customer, "loyalty_member")) /\ ~Truthy(Get(customer, "member_since"))
     THEN Result(<<>>, <<Finding("loyalty", "Loyalty member should have member_since date",
                                 0, PyNone, PyNone)>>, "")
     ELSE Ok

\* Rule 6: Email format validation
json_rule6(data) ==
  LET customer == GetOr(data, "customer", PyDict(<<>>))
      email == GetOr(customer, "email", PyStr(<<>>))
      at == InTest(email, "@", <<"@">>)
  IN IF ~Truthy(email) THEN Ok
     ELSE IF at.exc # "" THEN Raise(at.exc)
     ELSE IF ~at.val
     THEN Errs(<<Finding("email", "Invalid email format", 0, email, PyNone)>>)
     ELSE Ok

\* Rule 7: Payment method validation
json_rule7(data) ==
  LET payment_method == Get(data, "payment_method")
      payment == GetOr(data, "payment", PyDict(<<>>))
      card_number == GetOr(payment, "card_number_last_four", PyStr(<<>>))
      e1 == IF ~Truthy(Get(payment, "card_type"))
               \/ ~Truthy(Get(payment, "card_number_last_four"))
            THEN <<Finding("payment",
                           "Credit Card payment requires card_type and card_number_last_four",
                           0, PyNone, PyNone)>>
            ELSE <<>>
      e2 == <<Finding("card_format", "Card number last four must be 4 digits. Found",
                      0, card_number, PyNone)>>
  IN IF payment_method # PyStr(CREDIT_CARD) THEN Ok
     ELSE IF payment.k # "dict" THEN Raise("AttributeError")
     \* card_number and not card_number.isdigit() or len(card_number) != 4
     ELSE IF Truthy(card_number) /\ card_number.k # "str"
     THEN Result(e1, <<>>, "AttributeError")
     ELSE IF Truthy(card_number) /\ ~isdigit(card_number.s) THEN Errs(e1 \o e2)
     ELSE IF ~Sized(card_number) THEN Result(e1, <<>>, "TypeError")
     ELSE IF PyLen(card_number) # 4 THEN Errs(e1 \o e2)
     ELSE Errs(e1)

\* Rule 8: Digital signature validation
json_rule8(data) ==
  LET digital_sig == GetOr(data, "digital_signature", PyDict(<<>>))
  IN IF digital_sig.k # "dict" THEN Raise("AttributeError")
     ELSE IF ~Truthy(Get(digital_sig, "algorithm")) \/ ~Truthy(Get(digital_sig, "signature"))
     THEN Errs(<<Finding("signature", "Digital signature must include algorithm and signature",
                         0, PyNone, PyNone)>>)
     ELSE Ok

\* Rule 9, the prices of the items: [exc, prices]
RECURSIVE json_item_prices(_, _)
json_item_prices(items, i) ==
  IF i > Len(items) THEN [exc |-> "", prices |-> <<>>]
  ELSE IF items[i].k # "dict" THEN [exc |-> "AttributeError", prices |-> <<>>]
  ELSE LET rest == json_item_prices(items, i + 1)
       IN [exc |-> rest.exc,
           prices |-> <<GetOr(items[i], "unit_price", PyInt(0)),
                        GetOr(items[i], "subtotal", PyInt(0))>> \o rest.prices]

\* Rule 9, the range check of the prices from price i on
RECURSIVE json_price_range(_, _)
json_price_range(prices, i) ==
  IF i > Len(prices) THEN Ok
  ELSE IF ~IsNumber(prices[i]) THEN Raise("TypeError")
  ELSE LET rest == json_price_range(prices, i + 1)
           e == IF prices[i].n < 0
                THEN <<Finding("sanity", "Price cannot be negative", 0, prices[i], PyNone)>>
                ELSE <<>>
           w == IF prices[i].n >= 0 /\ Mills(prices[i]) > HighPrice
                THEN <<Finding("sanity", "Unusually high price", 0, prices[i], PyNone)>>
                ELSE <<>>
       IN Result(e \o rest.errs, w \o rest.warns, rest.exc)

\* Rule 9: Currency consistency
json_rule9(data) ==
  LET items == GetOr(data, "items", PyList(<<>>))
      item_prices == json_item_prices(Iter(items), 1)
      pricing_section == GetOr(data, "pricing", PyDict(<<>>))
      has_sub == InTest(pricing_section, "subtotal", SUBTOTAL)
      has_gt == InTest(pricing_section, "grand_total", GRAND_TOTAL)
      prices == item_prices.prices
                  \o (IF has_sub.val THEN <<Get(pricing_section, "subtotal")>> ELSE <<>>)
                  \o (IF has_gt.val THEN <<Get(pricing_section, "grand_total")>> ELSE <<>>)
  IN IF item_prices.exc # "" THEN Raise(item_prices.exc)
     ELSE IF has_sub.exc # "" THEN Raise(has_sub.exc)
     ELSE IF (has_sub.val \/ has_gt.val) /\ pricing_section.k # "dict" THEN Raise("TypeError")
     ELSE json_price_range(prices, 1)

required_fields ==
  <<"receipt_id", "purchase_date", "store_name", "customer", "store",
    "items", "payment", "transaction", "footer">>

\* Rule 10: Required fields presence, from field i on
RECURSIVE json_required_from(_, _)
json_required_from(data, i) ==
  IF i > Len(required_fields) THEN <<>>
  ELSE (IF ~HasKey(data, required_fields[i])
        THEN <<[Finding("required", "Required field missing", 0, PyNone, PyNone)
                  EXCEPT !.e = required_fields[i]]>>
        ELSE <<>>) \o json_required_from(data, i + 1)

json_rule10(data) == Errs(json_required_from(data, 1))



\* validate_business_rules on loaded data: the ten rules in order
json_validate_business_rules(data, now) ==
  IF ~Truthy(data)
  THEN Errs(<<Finding("no_data", "No JSON data loaded for business rule validation",
                      0, PyNone, PyNone)>>)
  ELSE Then(json_rule1(data), Then(json_rule2(data, now), Then(json_rule3(data),
       Then(json_rule4(data), Then(json_rule5(data), Then(json_rule6(data),
       Then(json_rule7(data), Then(json_rule8(data), Then(json_rule9(data),
            json_rule10(data))))))))))

\* ------------------------------------------------------------ JSON type check, totals

\* type(value).__name__
TypeName(v) == IF v.k = "none" THEN "NoneType" ELSE v.k

\* JSONReceiptValidator.validate_data_types on data = self.json_data (truthy)
json_data_types(data) ==
  LET receipt_id == GetOr(data, "receipt_id", PyStr(<<>>))
      w == IF receipt_id.k # "str" \/ ~startswith(receipt_id.s, RCPT_)
           THEN <<Finding("types", "Receipt ID format may be incorrect", 0, receipt_id, PyNone)>>
           ELSE <<>>
      total_amount == Get(data, "total_amount")
      e1 == IF total_amount.k # "none" /\ ~IsNumber(total_amount)
            THEN <<[Finding("types", "Field 'total_amount' must be numeric. Found",
                            0, PyNone, PyNone) EXCEPT !.e = TypeName(total_amount)]>>
            ELSE <<>>
      purchase_date == Get(data, "purchase_date")
      e2 == IF purchase_date.k = "str" /\ ~fromisoformat(replaceZ(purchase_date.s)).ok
            THEN <<Finding("types", "Field 'purchase_date' must be valid ISO date. Found",
                           0, purchase_date, PyNone)>>
            ELSE <<>>
  IN IF data.k # "dict" THEN Raise("AttributeError")
     ELSE IF purchase_date.k \notin {"none", "str"} THEN Result(e1, w, "AttributeError")
     ELSE Result(e1 \o e2, w, "")

Totals(sub, taxable, count) ==
  [calculated_subtotal |-> sub, taxable_subtotal |-> taxable, item_count |-> count]

NoTotals == Totals(0, 0, 0)

\* sum(item.get('subtotal', 0) for item in items [if item.get('tax_applied')]),
\* in thousandths: [exc, v]
RECURSIVE json_sum(_, _, _)
json_sum(items, i, taxed_only) ==
  IF i > Len(items) THEN [exc |-> "", v |-> 0]
  ELSE IF items[i].k # "dict" THEN [exc |-> "AttributeError", v |-> 0]
  ELSE IF taxed_only /\ ~Truthy(GetOr(items[i], "tax_applied", PyBool(FALSE)))
  THEN json_sum(items, i + 1, taxed_only)
  ELSE IF ~IsNumber(GetOr(items[i], "subtotal", PyInt(0))) THEN [exc |-> "TypeError", v |-> 0]
  ELSE LET rest == json_sum(items, i + 1, taxed_only)
       IN [exc |-> rest.exc, v |-> Mills(GetOr(items[i], "subtotal", PyInt(0))) + rest.v]

\* JSONReceiptValidator.calculate_totals: [exc, totals]
calculate_totals(data) ==
  LET items == GetOr(data, "items", PyList(<<>>))
      subtotal == json_sum(Iter(items), 1, FALSE)
      taxable_subtotal == json_sum(Iter(items), 1, TRUE)
  IN IF data.k # "dict" THEN [exc |-> "AttributeError", totals |-> NoTotals]
     ELSE IF ~Sized(items) THEN [exc |-> "TypeError", totals |-> NoTotals]
     ELSE IF subtotal.exc # "" THEN [exc |-> subtotal.exc, totals |-> NoTotals]
     ELSE IF taxable_subtotal.exc # "" THEN [exc |-> taxable_subtotal.exc, totals |-> NoTotals]
     ELSE [exc |-> "", totals |-> Totals(subtotal.v, taxable_subtotal.v, PyLen(items))]

\* ------------------------------------------------------------ XML conversion

\* An element of the parsed tree: its tag, its attributes [key, val] in
\* document order, its text (<<>>: none) and its child elements in order
Element(tag, attrib, text, kids) ==
  [tag |-> tag, attrib |-> attrib, text |-> text, kids |-> kids]

\* the attributes as entries "@key"
attrib_entries(attrib) ==
  [i \in 1..Len(attrib) |-> [p |-> "@", key |-> attrib[i].key, val |-> PyStr(attrib[i].val)]]

\* one child added to result, were a later child of a tag put before the
\* earlier ones
add_child_prepends(result, tag, child_data) ==
  IF HasKeyP(PyDict(result), "", tag)
  THEN LET old == Get(PyDict(result), tag)
           lst == IF old.k # "list" THEN <<old>> ELSE old.l
       IN SetKeyP(result, "", tag, PyList(<<child_data>> \o lst))
  ELSE SetKeyP(result, "", tag, child_data)

\* one child added to result: a second child of a tag turns the entry into
\* a list, a later one is appended to it
add_child(result, tag, child_data) ==
  IF HasKeyP(PyDict(result), "", tag)
  THEN LET old == Get(PyDict(result), tag)
           lst == IF old.k # "list" THEN <<old>> ELSE old.l
       IN SetKeyP(result, "", tag, PyList(Append(lst, child_data)))
  ELSE SetKeyP(result, "", tag, child_data)

\* xml_to_dict, nested in validate_xml_content (the ElementTree branch)
RECURSIVE xml_to_dict(_)
xml_to_dict(element) ==
  LET text == strip(element.text)
      RECURSIVE children(_, _)
      children(result, i) ==
        IF i > Len(element.kids) THEN result
        ELSE children(add_child(result, element.kids[i].tag, xml_to_dict(element.kids[i])),
                      i + 1)
      result0 == attrib_entries(element.attrib)
      result1 == IF text # <<>> THEN SetKeyP(result0, "#", "text", PyStr(text)) ELSE result0
  IN IF text # <<>> /\ Len(element.kids) = 0 THEN PyStr(text)
     ELSE PyDict(children(result1, 1))

\* lxml_to_dict, nested in validate_xml_content (the lxml branch)
RECURSIVE lxml_to_dict(_)
lxml_to_dict(element) ==
  LET text == strip(element.text)
      RECURSIVE children(_, _)
      children(result, i) ==
        IF i > Len(element.kids) THEN result
        ELSE children(add_child(result, element.kids[i].tag, lxml_to_dict(element.kids[i])),
                      i + 1)
      result0 == attrib_entries(element.attrib)
      result1 == IF text # <<>> THEN SetKeyP(result0, "#", "text", PyStr(text)) ELSE result0
  IN IF text # <<>> /\ Len(element.kids) = 0 THEN PyStr(text)
     ELSE PyDict(children(result1, 1))


\* ------------------------------------------------------------ XML rules
\* XMLReceiptValidator.validate_business_rules, rule by rule, on xml_data

\* xml_data.get('items', {}).get('item', []): [exc, v]
xml_items(xml_data) ==
  LET items == GetOr(xml_data, "items", PyDict(<<>>))
  IN IF xml_data.k # "dict" \/ items.k # "dict" THEN [exc |-> "AttributeError", v |-> PyNone]
     ELSE [exc |-> "", v |-> GetOr(items, "item", PyList(<<>>))]

\* Rule 1: Minimum 5 items required
xml_rule1(xml_data) ==
  LET items == xml_items(xml_data)
      items_count == PyLen(items.v)
  IN IF items.exc # "" THEN Raise(items.exc)
     ELSE IF items_count < MinItems
     THEN Errs(<<Finding("min_items", "Receipt must contain at least 5 items. Found",
                         0, PyInt(items_count), PyNone)>>)
     ELSE Result(<<>>, <<Finding("min_items", "Item count validation passed",
                                 0, PyInt(items_count), PyNone)>>, "")

\* Rule 2: Date validation (purchase date should not be in future)
xml_rule2(xml_data, now) ==
  LET purchase_date == Get(xml_data, "purchase_date")
      parsed == strptime_ymd(purchase_date.s)
  IN IF ~Truthy(purchase_date) THEN Ok
     ELSE IF purchase_date.k # "str" THEN Raise("TypeError")
     ELSE IF ~parsed.ok
     THEN Errs(<<Finding("date", "Invalid date format. Expected YYYY-MM-DD", 0, PyNone, PyNone)>>)
     ELSE IF Later(parsed.dt, now)
     THEN Errs(<<Finding("date", "Purchase date cannot be in the future", 0, PyNone, PyNone)>>)
     ELSE Ok

\* Rule 3: Total amount validation
xml_rule3(xml_data) ==
  LET total_amount == float(GetOr(xml_data, "total_amount", PyInt(0)))
      items_pricing == GetOr(xml_data, "pricing", PyDict(<<>>))
      present == InTest(items_pricing, "grand_total", GRAND_TOTAL)
      calculated_total == float(Get(items_pricing, "grand_total"))
  IN IF total_amount.exc # "" THEN Raise(total_amount.exc)
     ELSE IF present.exc # "" THEN Raise(present.exc)
     ELSE IF ~present.val THEN Ok
     ELSE IF items_pricing.k # "dict" THEN Raise("TypeError")
     ELSE IF calculated_total.exc # "" THEN Raise(calculated_total.exc)
     ELSE IF ExceedsEpsilon(total_amount.v, calculated_total.v)
     THEN Errs(<<Finding("total", "Total amount mismatch. Header, Pricing", 0,
                         PyFloat(total_amount.v), PyFloat(calculated_total.v))>>)
     ELSE Ok

\* Rule 4, one item, its fields converted: the three checks on the numbers
xml_item_checks(i, quantity, unit_price, subtotal) ==
  LET e1 == IF quantity <= 0
            THEN <<Finding("quantity", "Item: Quantity must be positive. Found",
                           i, PyInt(quantity), PyNone)>>
            ELSE <<>>
      e2 == IF unit_price < 0
            THEN <<Finding("price", "Item: Unit price cannot be negative. Found",
                           i, PyFloat(unit_price), PyNone)>>
            ELSE <<>>
      e3 == IF ExceedsEpsilon(subtotal, quantity * unit_price)
            THEN <<Finding("subtotal", "Item: Subtotal calculation error. Expected, Found",
                           i, PyFloat(quantity * unit_price), PyFloat(subtotal))>>
            ELSE <<>>
  IN Errs(e1 \o e2 \o e3)

\* Rule 4, one item, after the three conversions: the first one that raised
\* ends the rule
xml_item_converted(i, quantity, unit_price, subtotal) ==
  IF quantity.exc # "" THEN Raise(quantity.exc)
  ELSE IF unit_price.exc # "" THEN Raise(unit_price.exc)
  ELSE IF subtotal.exc # "" THEN Raise(subtotal.exc)
  ELSE xml_item_checks(i, quantity.v, unit_price.v, subtotal.v)

\* Rule 4, one item: the conversions, then the three checks
xml_item(item, i) ==
  IF item.k # "dict" THEN Raise("AttributeError")
  ELSE xml_item_converted(i, int(GetOr(item, "quantity", PyInt(0))),
                          float(GetOr(item, "unit_price", PyInt(0))),
                          float(GetOr(item, "subtotal", PyInt(0))))

\* Rule 4: Item validation: for i, item in enumerate(items), from item i on
RECURSIVE xml_items_from(_, _)
xml_items_from(items, i) ==
  IF i > Len(items) THEN Ok
  ELSE LET r == xml_item(items[i], i)
           rest == xml_items_from(items, i + 1)
       IN IF r.exc # "" THEN r
          ELSE Result(r.errs \o rest.errs, <<>>, rest.exc)

xml_rule4(xml_data) ==
  LET items == xml_items(xml_data)
  IN IF items.exc # "" THEN Raise(items.exc)
     ELSE xml_items_from(Iter(items.v), 1)

\* Rule 5: Customer information validation
xml_rule5(xml_data) ==
  LET customer == GetOr(xml_data, "customer", PyDict(<<>>))
  IN IF customer.k # "dict" THEN Raise("AttributeError")
     ELSE IF Truthy(Get(customer, "loyalty_member")) /\ ~Truthy(Get(customer, "member_since"))
     THEN Result(<<>>, <<Finding("loyalty", "Loyalty member should have member_since date",
                                 0, PyNone, PyNone)>>, "")
     ELSE Ok

\* Rule 6: Payment method validation
xml_rule6(xml_data) ==
  LET payment_method == Get(xml_data, "payment_method")
      payment == GetOr(xml_data, "payment", PyDict(<<>>))
  IN IF payment_method # PyStr(CREDIT_CARD) THEN Ok
     ELSE IF payment.k # "dict" THEN Raise("AttributeError")
     ELSE IF ~Truthy(Get(payment, "card_type"))
               \/ ~Truthy(Get(payment, "card_number_last_four"))
     THEN Errs(<<Finding("payment",
                         "Credit Card payment requires card_type and card_number_last_four",
                         0, PyNone, PyNone)>>)
     ELSE Ok

\* Rule 7: Digital signature validation
xml_rule7(xml_data) ==
  LET digital_sig == GetOr(xml_data, "digital_signature", PyDict(<<>>))
  IN IF digital_sig.k # "dict" THEN Raise("AttributeError")
     ELSE IF ~Truthy(Get(digital_sig, "algorithm")) \/ ~Truthy(Get(digital_sig, "signature"))
     THEN Errs(<<Finding("signature", "Digital signature must include algorithm and signature",
                         0, PyNone, PyNone)>>)
     ELSE Ok

\* validate_business_rules on the converted receipt: the seven rules in order
xml_validate_business_rules(xml_data, now) ==
  Then(xml_rule1(xml_data), Then(xml_rule2(xml_data, now), Then(xml_rule3(xml_data),
  Then(xml_rule4(xml_data), Then(xml_rule5(xml_data), Then(xml_rule6(xml_data),
       xml_rule7(xml_data)))))))


\* ------------------------------------------------------------ the validator object

VARIABLES
  installer, \* a HadoopInstaller in install(): [outcome, at, ran, result]
  enc,       \* "json": a JSONReceiptValidator, "xml": an XMLReceiptValidator
  file,      \* the receipt file: [ok, json, xml], ok: it parses
  env,       \* [lib, schema_file, schema, now]: the library is importable
             \* (JSONSCHEMA_AVAILABLE / LXML_AVAILABLE), a schema file was
             \* given, what the external schema validation answers when it
             \* runs, and the evaluation time
  pc,        \* where generate_report is
  data,      \* self.json_data / xml_data
  errors,    \* self.errors
  warnings,  \* self.warnings
  loc,       \* the locals of generate_report: [schema_valid, content_valid,
             \* types_valid, totals]
  reports    \* the reports returned so far, as their callers received them

vars == <<installer, enc, file, env, pc, data, errors, warnings, loc, reports>>

NoLocals ==
  [schema_valid |-> PyNone, content_valid |-> TRUE, types_valid |-> TRUE, totals |-> NoTotals]

\* generate_report, were a warning to count against overall_valid
Report_warnings_count(kind) ==
  [kind |-> kind,
   schema_valid |-> loc.schema_valid,
   content_valid |-> loc.content_valid,
   types_valid |-> loc.types_valid,
   totals |-> loc.totals,
   errors |-> errors,
   warnings |-> warnings,
   overall_valid |-> Len(errors) = 0 /\ Len(warnings) = 0]

\* the report generate_report returns
Report(kind) ==
  [kind |-> kind,
   schema_valid |-> loc.schema_valid,
   content_valid |-> loc.content_valid,
   types_valid |-> loc.types_valid,
   totals |-> loc.totals,
   errors |-> errors,
   warnings |-> warnings,
   overall_valid |-> Len(errors) = 0]

\* ---- JSONReceiptValidator

\* generate_report, lines 249-257: load_json; a file that does not parse
\* ends the call with the short report
load_json ==
  /\ enc = "json" /\ pc = "idle" /\ Len(reports) < MaxCalls
  /\ IF file.ok
     THEN /\ data' = file.json
          /\ pc' = "schema"
          /\ loc' = NoLocals
          /\ UNCHANGED <<errors, reports>>
     ELSE /\ errors' = Append(errors, FindingExc("load", "JSON parsing error", "JSONDecodeError"))
          /\ reports' = Append(reports,
                               [kind |-> "load_failed",
                                schema_valid |-> PyNone,
                                content_valid |-> FALSE,
                                types_valid |-> FALSE,
                                totals |-> NoTotals,
                                errors |-> errors',
                                warnings |-> warnings,
                                overall_valid |-> FALSE])
          /\ UNCHANGED <<data, pc, loc>>
  /\ UNCHANGED <<installer, enc, file, env, warnings>>

\* what validate_schema appends and returns: [errs, valid]
json_schema_result ==
  IF ~env.lib
  THEN [errs |-> <<Finding("schema", "JSON Schema validation requires jsonschema library",
                           0, PyNone, PyNone)>>, valid |-> FALSE]
  ELSE IF ~Truthy(data)
  THEN [errs |-> <<Finding("schema", "No JSON data loaded for schema validation",
                           0, PyNone, PyNone)>>, valid |-> FALSE]
  ELSE CASE env.schema = "valid" -> [errs |-> <<>>, valid |-> TRUE]
         [] env.schema = "invalid" ->
              [errs |-> <<Finding("schema", "Schema validation error", 0, PyNone, PyNone)>>,
               valid |-> FALSE]
         [] env.schema = "invalid_at_path" ->
              [errs |-> <<Finding("schema", "Schema validation error", 0, PyNone, PyNone),
                          Finding("schema", "  At path", 0, PyNone, PyNone)>>,
               valid |-> FALSE]
         [] OTHER ->
              [errs |-> <<FindingExc("schema", "Schema validation failed", "Exception")>>,
               valid |-> FALSE]

\* schema_valid = self.validate_schema() if self.schema_file else None
validate_schema ==
  /\ enc = "json" /\ pc = "schema"
  /\ IF env.schema_file
     THEN /\ errors' = errors \o json_schema_result.errs
          /\ loc' = [loc EXCEPT !.schema_valid = PyBool(json_schema_result.valid)]
     ELSE /\ loc' = [loc EXCEPT !.schema_valid = PyNone]
          /\ UNCHANGED errors
  /\ pc' = "rule1"
  /\ UNCHANGED <<installer, enc, file, env, data, warnings, reports>>

\* a rule step, were it to put its findings before the earlier ones
json_rule_step_prepends(r, at, next) ==
  /\ enc = "json" /\ pc = at
  /\ errors' = r.errs \o errors
  /\ warnings' = r.warns \o warnings
  /\ loc' = [loc EXCEPT !.content_valid = loc.content_valid /\ r.errs = <<>>]
  /\ pc' = IF r.exc # "" THEN "raised" ELSE next
  /\ UNCHANGED <<installer, enc, file, env, data, reports>>

\* One rule of validate_business_rules has run with Result r: its findings
\* are appended; an exception leaves generate_report and reaches its caller
json_rule_step(r, at, next) ==
  /\ enc = "json" /\ pc = at
  /\ errors' = errors \o r.errs
  /\ warnings' = warnings \o r.warns
  /\ loc' = [loc EXCEPT !.content_valid = loc.content_valid /\ r.errs = <<>>]
  /\ pc' = IF r.exc # "" THEN "raised" ELSE next
  /\ UNCHANGED <<installer, enc, file, env, data, reports>>

\* validate_business_rules, lines 72-85: without data it returns at once
json_business_rule1 ==
  IF enc = "json" /\ pc = "rule1" /\ ~Truthy(data)
  THEN /\ errors' = Append(errors, Finding("no_data",
                                           "No JSON data loaded for business rule validation",
                                           0, PyNone, PyNone))
       /\ loc' = [loc EXCEPT !.content_valid = FALSE]
       /\ pc' = "types"
       /\ UNCHANGED <<installer, enc, file, env, data, warnings, reports>>
  ELSE json_rule_step(json_rule1(data), "rule1", "rule2")

json_business_rule2 == json_rule_step(json_rule2(data, env.now), "rule2", "rule3")

json_business_rule3 == json_rule_step(json_rule3(data), "rule3", "rule4")

json_business_rule4 == json_rule_step(json_rule4(data), "rule4", "rule5")

json_business_rule5 == json_rule_step(json_rule5(data), "rule5", "rule6")

json_business_rule6 == json_rule_step(json_rule6(data), "rule6", "rule7")

json_business_rule7 == json_rule_step(json_rule7(data), "rule7", "rule8")

json_business_rule8 == json_rule_step(json_rule8(data), "rule8", "rule9")

json_business_rule9 == json_rule_step(json_rule9(data), "rule9", "rule10")

json_business_rule10 == json_rule_step(json_rule10(data), "rule10", "types")

\* the type check, were an error of a field to leave its flag as it was
validate_data_types_flag_kept ==
  /\ enc = "json" /\ pc = "types"
  /\ IF ~Truthy(data)
     THEN /\ errors' = Append(errors, Finding("no_data",
                                              "No JSON data loaded for data type validation",
                                              0, PyNone, PyNone))
          /\ loc' = [loc EXCEPT !.types_valid = FALSE]
          /\ pc' = "totals"
          /\ UNCHANGED warnings
     ELSE LET r == json_data_types(data)
          IN /\ errors' = errors \o r.errs
             /\ warnings' = warnings \o r.warns
             /\ loc' = loc
             /\ pc' = IF r.exc # "" THEN "raised" ELSE "totals"
  /\ UNCHANGED <<installer, enc, file, env, data, reports>>

\* types_valid = self.validate_data_types()
validate_data_types ==
  /\ enc = "json" /\ pc = "types"
  /\ IF ~Truthy(data)
     THEN /\ errors' = Append(errors, Finding("no_data",
                                              "No JSON data loaded for data type validation",
                                              0, PyNone, PyNone))
          /\ loc' = [loc EXCEPT !.types_valid = FALSE]
          /\ pc' = "totals"
          /\ UNCHANGED warnings
     ELSE LET r == json_data_types(data)
          IN /\ errors' = errors \o r.errs
             /\ warnings' = warnings \o r.warns
             /\ loc' = [loc EXCEPT !.types_valid = r.errs = <<>>]
             /\ pc' = IF r.exc # "" THEN "raised" ELSE "totals"
  /\ UNCHANGED <<installer, enc, file, env, data, reports>>

\* generate_report, lines 264-281: totals = self.calculate_totals(), and
\* the report is returned
json_return ==
  /\ enc = "json" /\ pc = "totals"
  /\ LET r == calculate_totals(data)
     IN IF r.exc # ""
        THEN /\ pc' = "raised"
             /\ UNCHANGED <<loc, reports>>
        ELSE /\ loc' = [loc EXCEPT !.totals = r.totals]
             /\ reports' = Append(reports, [Report("full") EXCEPT !.totals = r.totals])
             /\ pc' = "idle"
  /\ UNCHANGED <<installer, enc, file, env, data, errors, warnings>>


\* ---- XMLReceiptValidator

\* what validate_schema appends and returns: [errs, valid].  The schema
\* validation parses the receipt itself: a file that does not parse raises
xml_schema_result ==
  IF ~file.ok \/ env.schema = "raises"
  THEN [errs |-> <<FindingExc("schema", "Schema validation failed", "Exception")>>,
        valid |-> FALSE]
  ELSE IF env.schema = "valid" THEN [errs |-> <<>>, valid |-> TRUE]
  ELSE IF env.schema = "invalid"
  THEN [errs |-> <<Finding("schema", "Schema validation error", 0, PyNone, PyNone)>>,
        valid |-> FALSE]
  ELSE [errs |-> <<Finding("schema", "Schema validation error", 0, PyNone, PyNone),
                   Finding("schema", "Schema validation error", 0, PyNone, PyNone)>>,
        valid |-> FALSE]

\* generate_report, line 230:
\* 'schema_valid': self.validate_schema() if LXML_AVAILABLE else None
xml_validate_schema ==
  /\ enc = "xml" /\ pc = "idle" /\ Len(reports) < MaxCalls
  /\ IF env.lib
     THEN /\ errors' = errors \o xml_schema_result.errs
          /\ loc' = [NoLocals EXCEPT !.schema_valid = PyBool(xml_schema_result.valid)]
     ELSE /\ loc' = NoLocals
          /\ UNCHANGED errors
  /\ pc' = "parse"
  /\ UNCHANGED <<installer, enc, file, env, data, warnings, reports>>

\* validate_xml_content, lines 138-216: the file is parsed and converted
xml_parse ==
  /\ enc = "xml" /\ pc = "parse"
  /\ IF file.ok
     THEN /\ data' = IF env.lib THEN lxml_to_dict(file.xml) ELSE xml_to_dict(file.xml)
          /\ pc' = "rule1"
          /\ UNCHANGED <<errors, loc>>
     ELSE /\ errors' = Append(errors,
                              IF env.lib
                              THEN FindingExc("content", "XML content validation failed",
                                              "XMLSyntaxError")
                              ELSE FindingExc("load", "XML parsing error", "ParseError"))
          /\ loc' = [loc EXCEPT !.content_valid = FALSE]
          /\ pc' = "return"
          /\ UNCHANGED data
  /\ UNCHANGED <<installer, enc, file, env, warnings, reports>>

\* One rule of validate_business_rules has run with Result r: its findings
\* are appended; an exception is caught by validate_xml_content (lines 221-223), which
\* appends an error and returns False
xml_rule_step(r, at, next) ==
  /\ enc = "xml" /\ pc = at
  /\ errors' = IF r.exc # ""
               THEN Append(errors \o r.errs,
                           FindingExc("content", "XML content validation failed", r.exc))
               ELSE errors \o r.errs
  /\ warnings' = warnings \o r.warns
  /\ loc' = [loc EXCEPT !.content_valid = loc.content_valid /\ r.errs = <<>> /\ r.exc = ""]
  /\ pc' = IF r.exc # "" THEN "return" ELSE next
  /\ UNCHANGED <<installer, enc, file, env, data, reports>>

xml_business_rule1 == xml_rule_step(xml_rule1(data), "rule1", "rule2")

xml_business_rule2 == xml_rule_step(xml_rule2(data, env.now), "rule2", "rule3")

xml_business_rule3 == xml_rule_step(xml_rule3(data), "rule3", "rule4")

xml_business_rule4 == xml_rule_step(xml_rule4(data), "rule4", "rule5")

xml_business_rule5 == xml_rule_step(xml_rule5(data), "rule5", "rule6")

xml_business_rule6 == xml_rule_step(xml_rule6(data), "rule6", "rule7")

xml_business_rule7 == xml_rule_step(xml_rule7(data), "rule7", "return")

\* generate_report, lines 227-235: the report is returned
xml_return ==
  /\ enc = "xml" /\ pc = "return"
  /\ reports' = Append(reports, Report("full"))
  /\ pc' = "idle"
  /\ UNCHANGED <<installer, enc, file, env, data, errors, warnings, loc>>


\* ------------------------------------------------------------ documents

PAST_DATE == <<"2", "0", "2", "4", "-", "0", "1", "-", "1", "5">>

PAST_DATETIME_Z == <<"2", "0", "2", "4", "-", "0", "1", "-", "1", "5", "T", "1", "0", ":", "3", "0", ":", "0", "0", "Z">>

FUTURE_DATE == <<"2", "0", "9", "9", "-", "0", "1", "-", "0", "1">>

LATER_TODAY == <<"2", "0", "2", "5", "-", "0", "6", "-", "1", "5", "T", "1", "8", ":", "0", "0", ":", "0", "0">>

\* 13:00 at UTC+5, which is 08:00 UTC, and 11:00 at UTC-5, which is 16:00 UTC
AHEAD_ZONE == <<"2", "0", "2", "5", "-", "0", "6", "-", "1", "5", "T", "1", "3", ":", "0", "0", ":", "0", "0", "+", "0", "5", ":", "0", "0">>

BEHIND_ZONE == <<"2", "0", "2", "5", "-", "0", "6", "-", "1", "5", "T", "1", "1", ":", "0", "0", ":", "0", "0", "-", "0", "5", ":", "0", "0">>

\* datetime.now()
Now == <<2025, 6, 15, 12, 0, 0>>

\* the decimal numeral of n >= 0
RECURSIVE NatText(_)
NatText(n) ==
  IF n < 10 THEN <<Digits[n + 1]>> ELSE NatText(n \div 10) \o <<Digits[(n % 10) + 1]>>

IntText(n) == IF n < 0 THEN <<"-">> \o NatText(-n) ELSE NatText(n)

\* the decimal numeral, with three decimals, of m thousandths
FloatText(m) ==
  LET a == Abs(m)
      frac == a % 1000
  IN (IF m < 0 THEN <<"-">> ELSE <<>>) \o NatText(a \div 1000) \o <<".">>
       \o <<Digits[(frac \div 100) + 1], Digits[((frac \div 10) % 10) + 1],
            Digits[(frac % 10) + 1]>>

\* the text a scalar is written as in an XML receipt
TextOf(v) ==
  CASE v.k = "str" -> v.s
    [] v.k = "int" -> IntText(v.n)
    [] v.k = "float" -> FloatText(v.n)
    [] v.k = "bool" -> IF v.n = 1 THEN <<"t", "r", "u", "e">> ELSE <<"f", "a", "l", "s", "e">>
    [] OTHER -> <<>>

\* The XML receipt that says what the JSON value v says: a dict is an
\* element with one child per key, in order; the list under "items" is the
\* element <items> with one <item> per element, in order; a scalar is an
\* element with its text
RECURSIVE XmlOf(_, _)
XmlOf(tag, v) ==
  LET RECURSIVE kids(_, _)
      kids(entries, i) ==
        IF i > Len(entries) THEN <<>>
        ELSE <<XmlOf(entries[i].key, entries[i].val)>> \o kids(entries, i + 1)
  IN CASE v.k = "dict" -> Element(tag, <<>>, <<>>, kids(v.d, 1))
       [] v.k = "list" ->
            Element(tag, <<>>, <<>>, [i \in 1..Len(v.l) |-> XmlOf("item", v.l[i])])
       [] OTHER -> Element(tag, <<>>, TextOf(v), <<>>)

NoElement == Element("", <<>>, <<>>, <<>>)

Item(quantity, unit_price, subtotal, tax_applied) ==
  PyDict(<<E("name", PyStr(<<"w">>)), E("quantity", quantity), E("unit_price", unit_price),
           E("subtotal", subtotal), E("tax_applied", tax_applied)>>)

\* 2 x 1.50 = 3.00, taxed
GoodItem == Item(PyInt(2), PyFloat(1500), PyFloat(3000), PyBool(TRUE))

\* a line item some rule objects to, one whose tax_applied is not a boolean,
\* or one that is not a line item at all
OddItems ==
  { Item(PyInt(2), PyFloat(1500), PyFloat(3009), PyBool(TRUE)),
    Item(PyInt(2), PyFloat(1500), PyFloat(3010), PyBool(TRUE)),
    Item(PyInt(2), PyFloat(1500), PyFloat(3011), PyBool(TRUE)),
    Item(PyInt(1), PyFloat(100000), PyFloat(100010), PyBool(TRUE)),
    Item(PyInt(2), PyFloat(1500), PyFloat(3020), PyBool(FALSE)),
    Item(PyInt(2), PyFloat(1500), PyFloat(2980), PyBool(TRUE)),
    Item(PyInt(300), PyFloat(1500), PyFloat(450011), PyBool(TRUE)),
    Item(PyInt(1), PyInt(2), PyInt(2), PyBool(FALSE)),
    Item(PyInt(0), PyFloat(1500), PyFloat(0), PyBool(TRUE)),
    Item(PyInt(-1), PyFloat(1500), PyFloat(-1500), PyBool(TRUE)),
    Item(PyFloat(2000), PyFloat(1500), PyFloat(3000), PyBool(TRUE)),
    Item(PyStr(<<"2">>), PyFloat(1500), PyFloat(3000), PyBool(TRUE)),
    Item(PyInt(2), PyFloat(-1500), PyFloat(-3000), PyBool(TRUE)),
    Item(PyInt(1), PyFloat(100000001), PyFloat(100000001), PyBool(TRUE)),
    Item(PyInt(2), PyFloat(1500), PyStr(<<"3", ".", "0", "0">>), PyBool(TRUE)),
    Item(PyInt(0), PyFloat(-1500), PyFloat(5000), PyBool(TRUE)),
    Item(PyInt(2), PyFloat(1500), PyFloat(3000), PyStr(<<"n", "o">>)),
    Item(PyInt(1), PyFloat(100000000), PyFloat(100000000), PyBool(TRUE)),
    PyDict(<<E("name", PyStr(<<"w">>)), E("unit_price", PyFloat(1500)),
             E("subtotal", PyFloat(0))>>),
    PyStr(<<"w">>) }

\* n times the item
Rep(item, n) == [i \in 1..n |-> item]

ItemLists ==
  {Rep(GoodItem, n) : n \in {0, 1, 4, 5}}
    \cup {[Rep(GoodItem, 6) EXCEPT ![2] = odd] : odd \in OddItems}
    \cup {[Rep(GoodItem, 6) EXCEPT ![1] = odd, ![3] = odd] :
            odd \in {Item(PyInt(0), PyFloat(-1500), PyFloat(5000), PyBool(TRUE))}}
    \cup {[Rep(GoodItem, 6) EXCEPT
             ![1] = Item(PyStr(<<"2">>), PyFloat(1500), PyFloat(3000), PyBool(TRUE)),
             ![3] = Item(PyInt(0), PyFloat(1500), PyFloat(0), PyBool(TRUE))]}
    \cup {<<Item(PyInt(2), PyFloat(1500), PyFloat(3020), PyBool(FALSE))>>,
          <<Item(PyStr(<<"2">>), PyFloat(1500), PyFloat(3000), PyBool(TRUE)),
            Item(PyInt(2), PyFloat(1500), PyFloat(3020), PyBool(FALSE))>>}

Customer(email, loyalty_member) ==
  PyDict(<<E("name", PyStr(<<"A">>)), E("email", email), E("loyalty_member", loyalty_member)>>)

Payment(card_type, card_number_last_four) ==
  PyDict(<<E("card_type", card_type), E("card_number_last_four", card_number_last_four)>>)

Pricing(subtotal, grand_total) ==
  PyDict(<<E("subtotal", subtotal), E("grand_total", grand_total)>>)

Signature(algorithm, signature) ==
  PyDict(<<E("algorithm", algorithm), E("signature", signature)>>)

\* A receipt no rule objects to: six items, header 100.00 = grand total
BaseReceipt ==
  PyDict(<<E("receipt_id", PyStr(RCPT_ \o <<"1">>)),
           E("purchase_date", PyStr(PAST_DATE)),
           E("store_name", PyStr(<<"S">>)),
           E("customer", Customer(PyStr(<<"a", "@", "b">>), PyBool(FALSE))),
           E("store", PyDict(<<E("city", PyStr(<<"N">>))>>)),
           E("items", PyList(Rep(GoodItem, 6))),
           E("payment", Payment(PyStr(<<"V">>), PyStr(<<"1", "2", "3", "4">>))),
           E("transaction", PyDict(<<E("id", PyStr(<<"7">>))>>)),
           E("footer", PyDict(<<E("note", PyStr(<<"t">>))>>)),
           E("total_amount", PyFloat(100000)),
           E("pricing", Pricing(PyFloat(18000), PyFloat(100000))),
           E("payment_method", PyStr(<<"C", "a", "s", "h">>)),
           E("digital_signature", Signature(PyStr(<<"R">>), PyStr(<<"x">>)))>>)

\* an edit of a receipt: the key is set to val, or deleted
Set(key, val) == [key |-> key, del |-> FALSE, val |-> val]

Drop(key) == [key |-> key, del |-> TRUE, val |-> PyNone]

RECURSIVE Edited(_, _)
Edited(doc, edits) ==
  IF edits = <<>> THEN doc
  ELSE Edited(PyDict(IF Head(edits).del THEN DelKey(doc.d, Head(edits).key)
                     ELSE SetKeyP(doc.d, "", Head(edits).key, Head(edits).val)),
              Tail(edits))

ItemEdits ==
  {<<Set("items", PyList(l))>> : l \in ItemLists}
    \cup {<<Drop("items")>>, <<Set("items", PyNone)>>,
          <<Set("items", PyStr(<<"a", "b", "c", "d", "e">>))>>}

TotalEdits ==
  {<<Set("total_amount", v)>> :
     v \in {PyFloat(100009), PyFloat(100010), PyFloat(99990), PyFloat(100011), PyFloat(100020), PyFloat(99980), PyInt(100),
            PyStr(<<"a", "b", "c">>), PyStr(<<"1", "0", "0", ".", "0", "0">>), PyNone}}
    \cup {<<Drop("total_amount")>>, <<Drop("pricing")>>,
          <<Set("pricing", PyDict(<<>>))>>,
          <<Set("pricing", PyDict(<<E("subtotal", PyFloat(18000))>>))>>,
          <<Set("pricing", Pricing(PyFloat(18000), PyFloat(100020)))>>,
          <<Set("pricing", Pricing(PyFloat(18000), PyInt(100)))>>,
          <<Set("pricing", Pricing(PyFloat(-18000), PyFloat(100000)))>>,
          <<Set("pricing", Pricing(PyFloat(18000), PyStr(<<"1", "0", "0", ".", "0", "0">>)))>>,
          <<Set("pricing", PyNone)>>,
          <<Set("total_amount", PyFloat(200000000)),
            Set("pricing", Pricing(PyFloat(18000), PyFloat(200000000)))>>,
          <<Drop("total_amount"), Set("pricing", Pricing(PyFloat(18000), PyFloat(0)))>>}

DateEdits ==
  {<<Set("purchase_date", v)>> :
     v \in {PyStr(PAST_DATETIME_Z), PyStr(FUTURE_DATE), PyStr(LATER_TODAY),
            PyStr(AHEAD_ZONE), PyStr(BEHIND_ZONE), PyStr(<<"s", "o", "o", "n">>),
            PyStr(<<>>), PyInt(20240115)}}
    \cup {<<Drop("purchase_date")>>}

CardEdits ==
  {<<Set("payment_method", PyStr(CREDIT_CARD))>>,
   <<Set("payment", Payment(PyStr(<<"V">>), PyStr(<<"1", "2">>)))>>,
   <<Set("payment_method", PyStr(CREDIT_CARD)), Drop("payment")>>,
   <<Set("payment_method", PyStr(CREDIT_CARD)), Set("payment", PyStr(<<"V">>))>>,
   <<Set("payment_method", PyStr(CREDIT_CARD)),
     Set("payment", PyDict(<<E("card_type", PyStr(<<"V">>))>>))>>,
   <<Drop("payment")>>, <<Drop("payment_method")>>}
    \cup {<<Set("payment_method", PyStr(CREDIT_CARD)), Set("payment", Payment(t, n))>> :
            t \in {PyStr(<<"V">>)},
            n \in {PyStr(<<"1", "2">>), PyStr(<<"a", "b", "c", "d">>),
                   PyStr(<<"1", "2", "3", "4", "5">>), PyStr(<<"1", "2", "a", "4">>),
                   PyStr(<<>>), PyInt(1234), PyNone}}
    \cup {<<Set("payment_method", PyStr(CREDIT_CARD)),
            Set("payment", Payment(PyStr(<<>>), PyStr(<<"1", "2", "3", "4">>)))>>}

OtherEdits ==
  {<<Drop("digital_signature")>>,
   <<Set("digital_signature", Signature(PyStr(<<>>), PyStr(<<"x">>)))>>,
   <<Set("digital_signature", PyDict(<<E("algorithm", PyStr(<<"R">>))>>))>>,
   <<Set("digital_signature", PyStr(<<"x">>))>>,
   <<Set("customer", Customer(PyStr(<<"a", "b">>), PyBool(FALSE)))>>,
   <<Set("customer", Customer(PyStr(<<"a", "@", "b">>), PyBool(TRUE)))>>,
   <<Set("customer", PyDict(<<E("email", PyStr(<<"a", "@", "b">>)),
                              E("loyalty_member", PyBool(TRUE)),
                              E("member_since", PyStr(PAST_DATE))>>))>>,
   <<Set("customer", Customer(PyInt(5), PyBool(FALSE)))>>,
   <<Set("customer", PyStr(<<"A">>))>>,
   <<Drop("customer")>>,
   <<Drop("receipt_id")>>, <<Drop("store_name")>>, <<Drop("store")>>,
   <<Drop("transaction")>>, <<Drop("footer")>>,
   <<Drop("store"), Drop("footer")>>,
   <<Set("receipt_id", PyStr(<<"X", "1">>))>>,
   <<Set("receipt_id", PyInt(7))>>}

\* an earlier rule cannot evaluate
EarlyEdits ==
  {<<Set("purchase_date", PyStr(<<"s", "o", "o", "n">>))>>,
   <<Set("purchase_date", PyInt(20240115))>>,
   <<Set("total_amount", PyStr(<<"a", "b", "c">>))>>,
   <<Set("items", PyList([Rep(GoodItem, 6) EXCEPT
                            ![2] = Item(PyStr(<<"2">>), PyFloat(1500), PyFloat(3000),
                                        PyBool(TRUE))]))>>,
   <<Set("items", PyList(<<Item(PyInt(2), PyFloat(1500), PyFloat(3020), PyBool(FALSE))>>))>>}

\* a later rule objects
LateEdits ==
  {<<Drop("digital_signature")>>,
   <<Set("customer", Customer(PyStr(<<"a", "b">>), PyBool(TRUE)))>>,
   <<Set("payment_method", PyStr(CREDIT_CARD)),
     Set("payment", Payment(PyStr(<<"V">>), PyStr(<<"1", "2">>)))>>,
   <<Set("total_amount", PyFloat(100020))>>}

\* the receipts: JSON documents, as json.load returns them
Receipts ==
  {BaseReceipt}
    \cup {Edited(BaseReceipt, e) :
            e \in ItemEdits \cup TotalEdits \cup DateEdits \cup CardEdits \cup OtherEdits}
    \cup {Edited(BaseReceipt, e1 \o e2) : e1 \in EarlyEdits, e2 \in LateEdits}
    \cup {PyDict(<<>>), PyList(<<>>), PyList(<<PyInt(1)>>), PyNone, PyStr(<<"x">>)}


\* ------------------------------------------------------------ the specification

\* The schema collaborator: jsonschema / lxml importable or not, a schema
\* file given or not (JSON), and what the validation answers when it runs
Envs(e) ==
  IF e = "json"
  THEN {[lib |-> TRUE, schema_file |-> FALSE, schema |-> "valid", now |-> Now],
        [lib |-> FALSE, schema_file |-> TRUE, schema |-> "valid", now |-> Now]}
         \cup {[lib |-> TRUE, schema_file |-> TRUE, schema |-> s, now |-> Now] :
                 s \in {"valid", "invalid", "invalid_at_path", "raises"}}
  ELSE {[lib |-> FALSE, schema_file |-> TRUE, schema |-> "valid", now |-> Now]}
         \cup {[lib |-> TRUE, schema_file |-> TRUE, schema |-> s, now |-> Now] :
                 s \in {"valid", "invalid", "invalid_at_path", "raises"}}

\* the file of a receipt: the JSON document and the XML document that says
\* the same
FileOf(receipt) ==
  [ok |-> TRUE,
   json |-> receipt,
   xml |-> IF receipt.k = "dict" THEN XmlOf("receipt", receipt) ELSE NoElement]

\* a file that does not parse
Malformed == [ok |-> FALSE, json |-> PyNone, xml |-> NoElement]

\* an attribute of an element
Attr(key, val) == [key |-> key, val |-> val]

\* the first child of the element with the tag
ChildOf(element, tag) ==
  element.kids[CHOOSE i \in 1..Len(element.kids) : element.kids[i].tag = tag]

\* the element with its children of child's tag replaced by child
WithChild(element, child) ==
  [element EXCEPT !.kids = [i \in 1..Len(element.kids) |->
                              IF element.kids[i].tag = child.tag THEN child
                              ELSE element.kids[i]]]

BaseXml == XmlOf("receipt", BaseReceipt)

\* XML receipts saying what the base receipt says, with what only XML can
\* hold: attributes on the root, one of them named as a child is; an
\* attribute on <items> named as its children are; an attribute on an
\* element that has only text; text between the children; a tag that comes
\* a second time after other tags; an element with attributes only
XmlOnly ==
  { [BaseXml EXCEPT !.attrib = <<Attr("id", <<"7">>), Attr("store_name", <<"T">>)>>],
    WithChild(BaseXml, [ChildOf(BaseXml, "items") EXCEPT
                          !.attrib = <<Attr("item", <<"x">>)>>]),
    WithChild(BaseXml, [ChildOf(BaseXml, "total_amount") EXCEPT
                          !.attrib = <<Attr("currency", <<"U">>)>>]),
    [BaseXml EXCEPT !.text = <<" ", "n", " ">>],
    [BaseXml EXCEPT !.kids = Append(BaseXml.kids, XmlOf("footer", PyStr(<<"u">>)))],
    [BaseXml EXCEPT !.kids = Append(Append(BaseXml.kids, XmlOf("note", PyStr(<<"u">>))),
                                    Element("note", <<Attr("id", <<"7">>)>>, <<>>, <<>>))] }

\* their files: the JSON document is the base receipt
XmlOnlyFiles == {[ok |-> TRUE, json |-> BaseReceipt, xml |-> x] : x \in XmlOnly}

\* the installer is not in use
NoInstaller == [outcome |-> <<>>, at |-> 0, ran |-> <<>>, result |-> "none"]

\* A validator is constructed on a file; nothing has run
Init ==
  /\ enc \in {"json", "xml"}
  /\ file \in {FileOf(r) : r \in Receipts} \cup {Malformed} \cup XmlOnlyFiles
  /\ enc = "xml" /\ file.ok => file.json.k = "dict"
  /\ file \in XmlOnlyFiles => enc = "xml"
  /\ env \in Envs(enc)
  /\ pc = "idle"
  /\ data = PyNone
  /\ errors = <<>>
  /\ warnings = <<>>
  /\ loc = NoLocals
  /\ reports = <<>>
  /\ installer = NoInstaller

Next ==
  \/ load_json
  \/ validate_schema
  \/ json_business_rule1
  \/ json_business_rule2
  \/ json_business_rule3
  \/ json_business_rule4
  \/ json_business_rule5
  \/ json_business_rule6
  \/ json_business_rule7
  \/ json_business_rule8
  \/ json_business_rule9
  \/ json_business_rule10
  \/ validate_data_types
  \/ json_return
  \/ xml_validate_schema
  \/ xml_parse
  \/ xml_business_rule1
  \/ xml_business_rule2
  \/ xml_business_rule3
  \/ xml_business_rule4
  \/ xml_business_rule5
  \/ xml_business_rule6
  \/ xml_business_rule7
  \/ xml_return

Spec == Init /\ [][Next]_vars


\* ------------------------------------------------------------ HadoopInstaller.install

\* the steps of install, in the order of its list
steps ==
  <<"check_prerequisites", "download_hadoop", "extract_hadoop", "configure_hadoop",
    "setup_environment", "test_installation", "create_startup_scripts">>

\* How a step ends on the machine at hand: it returns True, it returns False,
\* or it leaves by an exception (check_prerequisites reads the disk outside
\* any try; every step can be interrupted from the keyboard)
Outcomes == {"true", "false", "raises"}

\* a step of the loop, were the loop to go on after a step that returned False
install_step_goes_on(k) ==
  /\ installer.result = "none" /\ installer.at = k
  /\ installer' =
       [installer EXCEPT
          !.ran = Append(installer.ran, steps[k]),
          !.at = IF installer.outcome[k] = "raises" THEN k ELSE k + 1,
          !.result = IF installer.outcome[k] = "raises" THEN "raised" ELSE "none"]
  /\ UNCHANGED <<enc, file, env, pc, data, errors, warnings, loc, reports>>

\* One turn of the loop of install, lines 549-553: step k is called; when it
\* returns False install returns False, when it raises install is left by
\* the exception, when it returns True the loop goes to the next step
install_step(k) ==
  /\ installer.result = "none" /\ installer.at = k
  /\ installer' =
       [installer EXCEPT
          !.ran = Append(installer.ran, steps[k]),
          !.at = IF installer.outcome[k] = "true" THEN k + 1 ELSE k,
          !.result = CASE installer.outcome[k] = "true" -> "none"
                       [] installer.outcome[k] = "false" -> "false"
                       [] OTHER -> "raised"]
  /\ UNCHANGED <<enc, file, env, pc, data, errors, warnings, loc, reports>>

check_prerequisites == install_step(1)

download_hadoop == install_step(2)

extract_hadoop == install_step(3)

configure_hadoop == install_step(4)

setup_environment == install_step(5)

test_installation == install_step(6)

create_startup_scripts == install_step(7)

\* install, lines 555-572: the loop is over, install returns True
install_return ==
  /\ installer.result = "none" /\ installer.at = Len(steps) + 1
  /\ installer' = [installer EXCEPT !.result = "true"]
  /\ UNCHANGED <<enc, file, env, pc, data, errors, warnings, loc, reports>>

\* install is called on a machine where each step has its outcome; no
\* validator is in use
InstallInit ==
  /\ installer \in {[outcome |-> o, at |-> 1, ran |-> <<>>, result |-> "none"] :
                      o \in [1..Len(steps) -> Outcomes]}
  /\ enc = "json" /\ file = Malformed
  /\ env = [lib |-> FALSE, schema_file |-> FALSE, schema |-> "valid", now |-> Now]
  /\ pc = "idle" /\ data = PyNone /\ errors = <<>> /\ warnings = <<>>
  /\ loc = NoLocals /\ reports = <<>>

InstallNext ==
  \/ check_prerequisites
  \/ download_hadoop
  \/ extract_hadoop
  \/ configure_hadoop
  \/ setup_environment
  \/ test_installation
  \/ create_startup_scripts
  \/ install_return

\* a step that terminates hands control back to the loop, which goes on at
\* once: no turn of the loop waits for ever
InstallSpec == InstallInit /\ [][InstallNext]_vars /\ WF_vars(InstallNext)


\* ------------------------------------------------------------ the properties

\* the calls of generate_report that have returned
Returned == 1..Len(reports)

\* C1: in every report generate_report has returned, of either validator,
\* overall_valid is true exactly when the report's error list is empty,
\* whatever the number of warnings
C1_OverallValidIffNoErrors ==
  \A c \in Returned : reports[c].overall_valid <=> (reports[c].errors = <<>>)

\* a report with no error and several warnings, and overall_valid true
C1_Witness ==
  \E c \in Returned :
    /\ reports[c].errors = <<>>
    /\ Len(reports[c].warnings) >= 2
    /\ reports[c].overall_valid

\* the findings among fs that rule r appended
Rule(fs, r) == SelectSeq(fs, LAMBDA f : f.r = r)

\* the findings among fs that none of the rules in rs appended
Without(fs, rs) == SelectSeq(fs, LAMBDA f : f.r \notin rs)

\* what each finding of fs is about: its rule and its item number
Kinds(fs) == [k \in 1..Len(fs) |-> <<fs[k].r, fs[k].i>>]

\* the first call of generate_report on the validator has not returned
FirstCall == Len(reports) = 0

\* C2: the schema check never affects overall_valid: in every report,
\* overall_valid is what the findings of the other steps alone make it,
\* whether validate_schema passed, failed, threw, had no library or did not run
C2_SchemaNeverAffectsOverallValid ==
  \A c \in Returned :
    reports[c].overall_valid <=> (Without(reports[c].errors, {"schema"}) = <<>>)

\* C3: two successive generate_report calls on one validator object return
\* the same errors and the same warnings, in the same order
C3_SecondReportSame ==
  Len(reports) >= 2 =>
    /\ reports[2].errors = reports[1].errors
    /\ reports[2].warnings = reports[1].warnings

\* C4: the XML receipt and the JSON receipt that say the same produce the
\* same findings from the business rules: the same rules object to the same
\* items, in the same order, errors and warnings alike
C4_EncodingEquivalence ==
  (enc = "xml" /\ pc = "return" /\ FirstCall /\ file.ok) =>
    LET json == json_validate_business_rules(file.json, env.now)
    IN /\ Kinds(Without(errors, {"schema"})) = Kinds(json.errs)
       /\ Kinds(warnings) = Kinds(json.warns)

\* C5: for every receipt file that parses, generate_report returns a report
\* and raises nothing to its caller, whatever the types and shapes of the values
C5_AlwaysReturnsVerdict == pc # "raised"

\* the errors of the rules of the run, each rule evaluated on its own
RulesAlone ==
  IF enc = "json"
  THEN json_rule1(data).errs \o json_rule2(data, env.now).errs \o json_rule3(data).errs
         \o json_rule4(data).errs \o json_rule5(data).errs \o json_rule6(data).errs
         \o json_rule7(data).errs \o json_rule8(data).errs \o json_rule9(data).errs
         \o json_rule10(data).errs
  ELSE xml_rule1(data).errs \o xml_rule2(data, env.now).errs \o xml_rule3(data).errs
         \o xml_rule4(data).errs \o xml_rule5(data).errs \o xml_rule6(data).errs
         \o xml_rule7(data).errs

\* validate_business_rules is over in the first call, on a receipt that is
\* a mapping with fields
RulesOver ==
  /\ FirstCall /\ file.ok /\ file.json.k = "dict" /\ file.json.d # <<>>
  /\ \/ enc = "json" /\ pc \in {"types", "raised"}
     \/ enc = "xml" /\ pc = "return"

\* the findings of part occur in whole, in the same order
RECURSIVE Within(_, _)
Within(part, whole) ==
  IF part = <<>> THEN TRUE
  ELSE IF whole = <<>> THEN FALSE
  ELSE IF Head(part) = Head(whole) THEN Within(Tail(part), Tail(whole))
  ELSE Within(part, Tail(whole))

\* C6: a rule that cannot evaluate does not stop the rules after it: when
\* the business rules are over, the errors hold, in order, what every rule
\* finds on its own, as if the rule that could not evaluate had passed
C6_ErrorIsolation == RulesOver => Within(RulesAlone, errors)

\* the line items of a receipt; none when it has no items field
ItemsOf(doc) == IF HasKey(doc, "items") THEN Get(doc, "items").l ELSE <<>>

\* the receipt is a mapping whose items field, if any, is a list
HasItemList(doc) ==
  doc.k = "dict" /\ (HasKey(doc, "items") => Get(doc, "items").k = "list")

\* C7: with fewer than 5 items (none, no items field, one item: JSON and
\* XML) the minimum-item-count rule emits exactly one Error and no Warning,
\* and the report's overall_valid is false; with 5 or more it emits no Error
\* and exactly one Warning
C7_MinimumItemCount ==
  /\ (FirstCall /\ file.ok /\ HasItemList(file.json) /\ pc = "rule2") =>
       IF Len(ItemsOf(file.json)) < MinItems
       THEN Len(Rule(errors, "min_items")) = 1 /\ Rule(warnings, "min_items") = <<>>
       ELSE Rule(errors, "min_items") = <<>> /\ Len(Rule(warnings, "min_items")) = 1
  /\ (Len(reports) >= 1 /\ file.ok /\ HasItemList(file.json)
         /\ Len(ItemsOf(file.json)) < MinItems) => ~reports[1].overall_valid

\* a line item with an integer quantity and numeric unit_price and subtotal
NumericItem(item) ==
  /\ item.k = "dict"
  /\ HasKey(item, "quantity") /\ Get(item, "quantity").k = "int"
  /\ HasKey(item, "unit_price") /\ Get(item, "unit_price").k \in {"int", "float"}
  /\ HasKey(item, "subtotal") /\ Get(item, "subtotal").k \in {"int", "float"}

\* the fields the rules before the items read have the types they expect
NumericHeader(doc) ==
  /\ doc.k = "dict"
  /\ HasKey(doc, "purchase_date") => Get(doc, "purchase_date").k = "str"
  /\ HasKey(doc, "total_amount") => Get(doc, "total_amount").k \in {"int", "float"}
  /\ HasKey(doc, "pricing") =>
       /\ Get(doc, "pricing").k = "dict"
       /\ HasKey(Get(doc, "pricing"), "grand_total") =>
            Get(Get(doc, "pricing"), "grand_total").k \in {"int", "float"}

\* quantity * unit_price of a numeric item, in thousandths
Expected(item) == Get(item, "quantity").n * Mills(Get(item, "unit_price"))

\* more than 0.01 apart, as decimals
Apart(x, y) == Abs(x - y) > Epsilon

\* C8: for every line item, when subtotal and quantity * unit_price are at
\* most 0.01 apart no subtotal Error is emitted for the item, and when they
\* are more than 0.01 apart exactly one is, naming the item's 1-based number
\* and the expected and the found value
C8_SubtotalTolerance ==
  (RulesOver /\ NumericHeader(file.json) /\ HasItemList(file.json)
     /\ \A k \in 1..Len(ItemsOf(file.json)) : NumericItem(ItemsOf(file.json)[k])) =>
    \A k \in 1..Len(ItemsOf(file.json)) :
      LET item == ItemsOf(file.json)[k]
          found == SelectSeq(errors, LAMBDA f : f.r = "subtotal" /\ f.i = k)
      IN IF Apart(Mills(Get(item, "subtotal")), Expected(item))
         THEN /\ Len(found) = 1
              /\ Mills(found[1].a) = Expected(item)
              /\ Mills(found[1].b) = Mills(Get(item, "subtotal"))
         ELSE found = <<>>

\* the receipt has a pricing.grand_total
HasGrandTotal(doc) ==
  HasKey(doc, "pricing") /\ HasKey(Get(doc, "pricing"), "grand_total")

\* total_amount, 0 without one, and pricing.grand_total, in thousandths
HeaderTotal(doc) == Mills(GetOr(doc, "total_amount", PyInt(0)))

GrandTotal(doc) == Mills(Get(Get(doc, "pricing"), "grand_total"))

\* C9: the header/pricing total rule emits exactly one Error, carrying both
\* values, when pricing.grand_total is present and more than 0.01 away from
\* total_amount, and the report's overall_valid is then false; it emits
\* nothing when grand_total is absent or at most 0.01 away
C9_TotalTolerance ==
  /\ (FirstCall /\ file.ok /\ NumericHeader(file.json) /\ pc = "rule4") =>
       IF HasGrandTotal(file.json) /\ Apart(HeaderTotal(file.json), GrandTotal(file.json))
       THEN /\ Len(Rule(errors, "total")) = 1
            /\ Mills(Rule(errors, "total")[1].a) = HeaderTotal(file.json)
            /\ Mills(Rule(errors, "total")[1].b) = GrandTotal(file.json)
       ELSE Rule(errors, "total") = <<>>
  /\ (Len(reports) >= 1 /\ file.ok /\ NumericHeader(file.json) /\ HasGrandTotal(file.json)
         /\ Apart(HeaderTotal(file.json), GrandTotal(file.json))) => ~reports[1].overall_valid

\* the fields the payment rule reads are strings, in a mapping
TextPayment(doc) ==
  /\ doc.k = "dict"
  /\ HasKey(doc, "payment_method") => Get(doc, "payment_method").k = "str"
  /\ HasKey(doc, "payment") =>
       /\ Get(doc, "payment").k = "dict"
       /\ \A k \in 1..Len(Get(doc, "payment").d) : Get(doc, "payment").d[k].val.k = "str"

\* payment.card_type and payment.card_number_last_four, None without one
CardType(doc) == Get(GetOr(doc, "payment", PyDict(<<>>)), "card_type")

CardNumber(doc) == Get(GetOr(doc, "payment", PyDict(<<>>)), "card_number_last_four")

\* a string of exactly 4 decimal digits
FourDigits(v) == v.k = "str" /\ Len(v.s) = 4 /\ isdigit(v.s)

\* C10: with payment_method "Credit Card", a missing card_type or
\* card_number_last_four yields an Error, and an Error citing the 4-digit
\* requirement is emitted exactly when card_number_last_four is not a string
\* of exactly 4 decimal digits; with another payment_method the rule emits nothing
C10_CreditCard ==
  (FirstCall /\ file.ok /\ TextPayment(file.json)
     /\ pc = (IF enc = "json" THEN "rule8" ELSE "rule7")) =>
    IF Get(file.json, "payment_method") = PyStr(CREDIT_CARD)
    THEN /\ (~Truthy(CardType(file.json)) \/ ~Truthy(CardNumber(file.json))) =>
              Len(Rule(errors, "payment")) = 1
         /\ Len(Rule(errors, "card_format")) = IF FourDigits(CardNumber(file.json)) THEN 0 ELSE 1
    ELSE Rule(errors, "payment") = <<>> /\ Rule(errors, "card_format") = <<>>

\* the minutes the UTC offset of an ISO string puts its wall clock ahead of
\* UTC; none for a string without offset, read as UTC
OffsetMinutes(chars) ==
  IF Len(chars) # 25 THEN 0
  ELSE LET m == 60 * DigitsValue(SubSeq(chars, 21, 22)) + DigitsValue(SubSeq(chars, 24, 25))
       IN IF chars[20] = "-" THEN -m ELSE m

\* a count of minutes that orders the datetimes of one month as time does
Minutes(dt) == (((dt[1] * 12 + dt[2]) * 31 + dt[3]) * 24 + dt[4]) * 60 + dt[5]

\* the instant the ISO string chars names is later than the instant at
\* which a clock running in UTC shows now
LaterInstant(chars, now) ==
  LET dt == fromisoformat(replaceZ(chars)).dt
      at == Minutes(dt) - OffsetMinutes(replaceZ(chars))
  IN at > Minutes(now) \/ (at = Minutes(now) /\ dt[6] > now[6])

\* the errors about purchase_date: those of the date rule, and the type
\* check's on the field
DateErrors(fs) ==
  SelectSeq(fs, LAMBDA f : f.r = "date" \/ (f.r = "types" /\ f.a = Get(file.json, "purchase_date")))

\* the first call of generate_report has returned a full report
FirstReport == Len(reports) >= 1 /\ reports[1].kind = "full"

\* C11: a purchase_date that is an ISO date later than the evaluation time
\* produces exactly one Error about the date in the whole report, "Purchase
\* date cannot be in the future"; one at or before the evaluation time
\* produces no Error about the date
C11_FutureDate ==
  (FirstReport /\ file.json.k = "dict" /\ Get(file.json, "purchase_date").k = "str"
     /\ fromisoformat(replaceZ(Get(file.json, "purchase_date").s)).ok) =>
    IF LaterInstant(Get(file.json, "purchase_date").s, env.now)
    THEN /\ Len(DateErrors(reports[1].errors)) = 1
         /\ DateErrors(reports[1].errors)[1].m = "Purchase date cannot be in the future"
    ELSE DateErrors(reports[1].errors) = <<>>

\* a line item the item rules accept: a positive integer quantity, a
\* non-negative unit price and the subtotal their product
ValidItem(item) ==
  /\ NumericItem(item)
  /\ Get(item, "quantity").n > 0
  /\ Mills(Get(item, "unit_price")) >= 0
  /\ Mills(Get(item, "subtotal")) = Expected(item)

\* every field the presence rule asks for is there
Complete(doc) == \A k \in 1..Len(required_fields) : HasKey(doc, required_fields[k])

\* The receipt of the example: 6 valid items, matching totals, a valid
\* email, a payment method other than credit card, a digital signature; and
\* nothing else a rule could object to: complete, dated in the past, its
\* amounts numbers and not negative
ScenarioB(doc) ==
  /\ HasItemList(doc) /\ Len(ItemsOf(doc)) = 6
  /\ \A k \in 1..Len(ItemsOf(doc)) : ValidItem(ItemsOf(doc)[k])
  /\ NumericHeader(doc) /\ HasKey(doc, "total_amount") /\ HasGrandTotal(doc)
  /\ HeaderTotal(doc) = GrandTotal(doc) /\ GrandTotal(doc) >= 0
  /\ HasKey(Get(doc, "pricing"), "subtotal") =>
       /\ IsNumber(Get(Get(doc, "pricing"), "subtotal"))
       /\ Mills(Get(Get(doc, "pricing"), "subtotal")) >= 0
  /\ Get(doc, "customer").k = "dict"
  /\ Get(Get(doc, "customer"), "email").k = "str"
  /\ HasChar(Get(Get(doc, "customer"), "email").s, "@")
  /\ Get(doc, "payment_method").k = "str" /\ Get(doc, "payment_method").s # CREDIT_CARD
  /\ Get(doc, "payment").k = "dict"
  /\ Get(doc, "digital_signature").k = "dict"
  /\ Truthy(Get(Get(doc, "digital_signature"), "algorithm"))
  /\ Truthy(Get(Get(doc, "digital_signature"), "signature"))
  /\ Complete(doc)
  /\ Len(Get(doc, "purchase_date").s) = 10
  /\ fromisoformat(Get(doc, "purchase_date").s).ok
  /\ ~Later(fromisoformat(Get(doc, "purchase_date").s).dt, Now)

\* C12: the JSON receipt of the example yields a report with zero Errors,
\* overall_valid true and calculated_totals.item_count 6
C12_ScenarioB ==
  (enc = "json" /\ file.ok /\ ScenarioB(file.json)) =>
    /\ pc # "raised"
    /\ FirstReport =>
         /\ reports[1].errors = <<>>
         /\ reports[1].overall_valid
         /\ reports[1].totals.item_count = 6

\* C13: the schema check has three outcomes in a report: None, with no
\* Error added, when no schema reference is supplied, the library is not
\* importable or the check itself throws; false, with Errors, when the
\* schema is violated; true, with none, when it is met
C13_SchemaOutcomes ==
  \A c \in Returned :
    reports[c].kind = "full" =>
      LET r == reports[c]
          none == r.schema_valid = PyNone /\ Rule(r.errors, "schema") = <<>>
      IN IF ~env.schema_file \/ ~env.lib \/ env.schema = "raises" THEN none
         ELSE IF env.schema = "valid"
         THEN r.schema_valid = PyBool(TRUE) /\ Rule(r.errors, "schema") = <<>>
         ELSE r.schema_valid = PyBool(FALSE) /\ Rule(r.errors, "schema") # <<>>

\* C14: on a file that does not parse the run stops at once: no business
\* rule, type check or totals computation runs, and the report holds exactly
\* one error, the parse error, no warning, and overall_valid false
C14_MalformedInput ==
  ~file.ok =>
    /\ pc \in {"idle", "parse", "return"}
    /\ Len(reports) >= 1 =>
         /\ Len(reports[1].errors) = 1
         /\ reports[1].errors[1].e \in {"JSONDecodeError", "ParseError", "XMLSyntaxError"}
         /\ reports[1].warnings = <<>>
         /\ ~reports[1].overall_valid

\* the place of a finding's rule in the rule catalogue (0: not a business rule)
CatalogueRank(r) ==
  CASE r = "min_items" -> 1
    [] r = "date" -> 2
    [] r = "total" -> 3
    [] r = "quantity" -> 4
    [] r = "price" -> 5
    [] r = "subtotal" -> 6
    [] r = "loyalty" -> 7
    [] r = "email" -> 8
    [] r \in {"payment", "card_format"} -> 9
    [] r = "signature" -> 10
    [] r = "sanity" -> 11
    [] r = "required" -> 12
    [] OTHER -> 0

\* the findings of the business rules among fs
OfCatalogue(fs) == SelectSeq(fs, LAMBDA f : CatalogueRank(f.r) > 0)

\* fs is in catalogue order, and in item order within a per-item rule
InCatalogueOrder(fs) ==
  \A j, k \in 1..Len(fs) :
    j < k =>
      /\ CatalogueRank(fs[j].r) <= CatalogueRank(fs[k].r)
      /\ (fs[j].r = fs[k].r /\ fs[j].r \in {"quantity", "price", "subtotal"})
           => fs[j].i <= fs[k].i

\* C15: the findings of a report are in rule-catalogue order, quantity,
\* price and subtotal being three rules in that order, and in item order
\* within each of them
C15_CatalogueOrder ==
  FirstReport =>
    /\ InCatalogueOrder(OfCatalogue(reports[1].errors))
    /\ InCatalogueOrder(OfCatalogue(reports[1].warnings))

\* the sum of the subtotals (in thousandths, a missing one counting 0) of the
\* items at the indices in among
RECURSIVE SubtotalsAt(_, _)
SubtotalsAt(items, among) ==
  IF among = {} THEN 0
  ELSE LET k == CHOOSE k \in among : TRUE
       IN (IF HasKey(items[k], "subtotal") THEN Mills(Get(items[k], "subtotal")) ELSE 0)
            + SubtotalsAt(items, among \ {k})

\* the items whose tax_applied is true
Taxed(items) == {k \in 1..Len(items) : GetOr(items[k], "tax_applied", PyBool(FALSE)) = PyBool(TRUE)}

\* C16: the totals of a report are computed from the items alone:
\* calculated_subtotal is the sum of all item subtotals (a missing one
\* counting 0), taxable_subtotal the sum over exactly the items whose
\* tax_applied is true, item_count the number of items; so taxable_subtotal
\* <= calculated_subtotal when no subtotal is negative
C16_DerivedTotals ==
  (FirstReport /\ enc = "json") =>
    LET items == ItemsOf(file.json)
        totals == reports[1].totals
    IN /\ totals.calculated_subtotal = SubtotalsAt(items, 1..Len(items))
       /\ totals.taxable_subtotal = SubtotalsAt(items, Taxed(items))
       /\ totals.item_count = Len(items)
       /\ (\A k \in 1..Len(items) : SubtotalsAt(items, {k}) >= 0)
            => totals.taxable_subtotal <= totals.calculated_subtotal

\* The c-th returned report as its holder reads it now: 'errors':
\* self.errors and 'warnings': self.warnings put the validator's own lists
\* in the report, not copies, and the validator never rebinds them; the
\* other fields are values of the moment of return
held_report(c) == [reports[c] EXCEPT !.errors = errors, !.warnings = warnings]

\* fs begins with the findings of part
BeginsWith(fs, part) == Len(part) <= Len(fs) /\ SubSeq(fs, 1, Len(part)) = part

\* C17: a report is fresh and, once returned, immutable: no later step of
\* the validator changes a field of a report already returned, and the
\* report of a later run is not the earlier run's findings followed by more
C17_ReportImmutable ==
  [][/\ \A c \in Returned : held_report(c)' = held_report(c)
     /\ (Len(reports) >= 1 /\ Len(reports') > Len(reports)) =>
          LET earlier == reports[Len(reports)]
              later == reports'[Len(reports')]
          IN ~ /\ BeginsWith(later.errors, earlier.errors)
               /\ BeginsWith(later.warnings, earlier.warnings)
               /\ Len(later.errors) + Len(later.warnings)
                    > Len(earlier.errors) + Len(earlier.warnings)]_vars

\* C18: findings are append-only: at every step of schema validation, rule
\* evaluation and type checking the error list and the warning list begin
\* with their previous values; no finding is changed, moved or removed
C18_AppendOnly ==
  [][BeginsWith(errors', errors) /\ BeginsWith(warnings', warnings)]_vars

\* the rules have run on a receipt and left several errors and warnings, one
\* step after another
C18_Witness ==
  /\ pc \in {"types", "return"} /\ file.ok
  /\ Len(Kinds(errors)) >= 3 /\ Len(warnings) >= 2
  /\ \E j, k \in 1..Len(errors) : errors[j].r # errors[k].r

\* the element and every element below it
RECURSIVE Nodes(_)
Nodes(element) ==
  {element} \cup UNION {Nodes(element.kids[i]) : i \in 1..Len(element.kids)}

\* the conversion the validator applies: lxml's when lxml is there
Convert(element) == IF env.lib THEN lxml_to_dict(element) ELSE xml_to_dict(element)

\* the children of the element with the tag, in document order
Named(element, tag) == SelectSeq(element.kids, LAMBDA c : c.tag = tag)

\* conv holds the children of the element: under each tag a list of the
\* conversions of the children of that tag, in document order, when they are
\* more than one, and the conversion of the only one otherwise
ChildrenCollected(element, conv) ==
  Len(element.kids) > 0 =>
    /\ conv.k = "dict"
    /\ \A c \in 1..Len(element.kids) :
         LET same == Named(element, element.kids[c].tag)
             v == Get(conv, element.kids[c].tag)
         IN /\ HasKey(conv, element.kids[c].tag)
            /\ IF Len(same) > 1
               THEN /\ v.k = "list" /\ Len(v.l) = Len(same)
                    /\ \A i \in 1..Len(same) : v.l[i] = Convert(same[i])
               ELSE v.k # "list" /\ v = Convert(same[1])

\* the XML file has been parsed and converted
Converted == enc = "xml" /\ file.ok /\ pc \notin {"idle", "parse"}

\* C19: the conversion of an element with children holds, under each child
\* tag, the list of the conversions of the children of that tag in document
\* order if and only if they are more than one, and the single conversion
\* (never a one-element list) when the tag occurs once
C19_RepeatedChildren ==
  Converted =>
    /\ data = Convert(file.xml)
    /\ \A element \in Nodes(file.xml) : ChildrenCollected(element, Convert(element))

\* a receipt has been converted whose six items, the second unlike the
\* others, are a list in that order beside tags that occur once
C19_Witness ==
  /\ Converted /\ Get(data, "store_name").k = "str"
  /\ LET item == Get(Get(data, "items"), "item")
     IN item.k = "list" /\ Len(item.l) = 6 /\ item.l[2] # item.l[1] /\ item.l[3] = item.l[1]

\* a receipt has been converted where a tag comes a second time after other
\* tags
C19_WitnessApart ==
  /\ Converted /\ Get(data, "footer").k = "list" /\ Len(Get(data, "footer").l) = 2
  /\ Get(data, "footer").l[1] # Get(data, "footer").l[2]

\* an attribute of the element has the name of one of its children
Collides(element) ==
  \E a \in 1..Len(element.attrib), c \in 1..Len(element.kids) :
    element.attrib[a].key = element.kids[c].tag

\* the map holds the value of every attribute of the element
AttributesHeld(element, conv) ==
  \A a \in 1..Len(element.attrib) :
    \E k \in 1..Len(conv.d) :
      conv.d[k].key = element.attrib[a].key /\ conv.d[k].val = PyStr(element.attrib[a].val)

\* C20: the conversion merges the attributes of an element into its map, and
\* where an attribute has the name of a child of the same element a Warning
\* of the conversion is recorded, neither value being lost
C20_AttributeCollision ==
  Converted =>
    /\ \A element \in Nodes(file.xml) :
         Convert(element).k = "dict" =>
           /\ AttributesHeld(element, Convert(element))
           /\ ChildrenCollected(element, Convert(element))
    /\ (\E element \in Nodes(file.xml) : Collides(element)) =>
         \E k \in 1..Len(warnings) : CatalogueRank(warnings[k].r) = 0

\* a price field is absent or a number
PriceOrNone(v, key) == HasKey(v, key) => Get(v, key).k \in {"int", "float"}

\* the receipt's price-like scalars can all be read as numbers
NumericPrices(doc) ==
  /\ HasItemList(doc)
  /\ \A k \in 1..Len(ItemsOf(doc)) :
       /\ ItemsOf(doc)[k].k = "dict"
       /\ PriceOrNone(ItemsOf(doc)[k], "unit_price")
       /\ PriceOrNone(ItemsOf(doc)[k], "subtotal")
  /\ HasKey(doc, "pricing") =>
       /\ Get(doc, "pricing").k = "dict"
       /\ PriceOrNone(Get(doc, "pricing"), "subtotal")
       /\ PriceOrNone(Get(doc, "pricing"), "grand_total")

\* the price-like scalars of the receipt, in thousandths, one per occurrence:
\* <<where, field, value>>, where being the item's index or 0 for the pricing
\* section
PriceOccurrences(doc) ==
  {<<k, f, Mills(Get(ItemsOf(doc)[k], f))>> :
     k \in {j \in 1..Len(ItemsOf(doc)) : TRUE}, f \in {"unit_price", "subtotal"}}
    \cup {<<0, f, Mills(Get(Get(doc, "pricing"), f))>> :
            f \in {g \in {"subtotal", "grand_total"} : HasKey(Get(doc, "pricing"), g)}}

\* C21: price sanity is reported per occurrence: each negative price-like
\* scalar of the items and of the pricing section yields exactly one
\* price-sanity Error, each one above 100000 exactly one Warning and no
\* Error, each one within [0, 100000] nothing
C21_PriceSanity ==
  (FirstReport /\ file.json.k = "dict" /\ NumericPrices(file.json)) =>
    /\ Len(Rule(reports[1].errors, "sanity"))
         = Cardinality({o \in PriceOccurrences(file.json) : o[3] < 0})
    /\ Len(Rule(reports[1].warnings, "sanity"))
         = Cardinality({o \in PriceOccurrences(file.json) : o[3] > HighPrice})

\* the fields a receipt must have, in their order
RequiredSet ==
  <<"receipt_id", "purchase_date", "store_name", "customer", "store", "items", "payment",
    "transaction", "footer">>

\* C22: the required-fields rule emits exactly one Error for each field of
\* the required set that the receipt lacks, in the set's order, and none for
\* a field that is present, whatever its value
C22_RequiredFields ==
  (FirstReport /\ file.json.k = "dict") =>
    LET missing == SelectSeq(RequiredSet, LAMBDA f : ~HasKey(file.json, f))
        found == Rule(reports[1].errors, "required")
    IN /\ Len(found) = Len(missing)
       /\ \A k \in 1..Len(found) : found[k].e = missing[k]

\* the item's quantity, as the receipt file gives it, is a positive integer:
\* a JSON integer above 0, or XML text that is the digits of one
PositiveQuantity(item) ==
  /\ item.k = "dict" /\ HasKey(item, "quantity")
  /\ IF enc = "json"
     THEN Get(item, "quantity").k = "int" /\ Get(item, "quantity").n > 0
     ELSE LET text == TextOf(Get(item, "quantity"))
          IN text # <<>> /\ AllDigits(text) /\ DigitsValue(text) > 0

\* the 1-based indices of the items whose quantity is not a positive integer,
\* in item order
RECURSIVE OffendingFrom(_, _)
OffendingFrom(items, k) ==
  IF k > Len(items) THEN <<>>
  ELSE (IF PositiveQuantity(items[k]) THEN <<>> ELSE <<k>>) \o OffendingFrom(items, k + 1)

\* the first call is over: it returned its report or left by an exception
FirstCallOver == FirstReport \/ (FirstCall /\ pc = "raised")

\* C23: the quantity rule emits exactly one Error, carrying the item's
\* 1-based index, for each item whose quantity is not a positive integer
\* (zero, negative, missing, fractional, not a number) and none for the
\* others; an offending item does not keep the later items from being checked
C23_QuantityRule ==
  (FirstCallOver /\ file.json.k = "dict" /\ Truthy(file.json) /\ HasItemList(file.json)
     /\ \A k \in 1..Len(ItemsOf(file.json)) : ItemsOf(file.json)[k].k = "dict") =>
    LET found == Rule(IF FirstReport THEN reports[1].errors ELSE errors, "quantity")
        offending == OffendingFrom(ItemsOf(file.json), 1)
    IN /\ Len(found) = Len(offending)
       /\ \A k \in 1..Len(found) : found[k].i = offending[k]

\* C24: in the first report of a fresh validator the flags agree with the
\* findings: overall_valid is true exactly when the business-rule flag is
\* true, the type-check flag is true and the schema result is not false
C24_FlagsAgree ==
  FirstReport =>
    (reports[1].overall_valid <=>
       /\ reports[1].content_valid
       /\ reports[1].types_valid
       /\ reports[1].schema_valid # PyBool(FALSE))

\* a first report whose only failed check is the type check: the rules and
\* the schema pass, a field has the wrong type
C24_Witness ==
  /\ FirstReport /\ ~reports[1].overall_valid
  /\ reports[1].content_valid /\ ~reports[1].types_valid
  /\ reports[1].schema_valid = PyBool(TRUE)

\* install is over: it returned or was left by an exception
InstallOver == installer.result # "none"

\* the steps of install that returned True, False
ReturnedTrue == {k \in 1..Len(installer.ran) : installer.outcome[k] = "true"}

ReturnedFalse == {k \in 1..Len(installer.ran) : installer.outcome[k] = "false"}

\* what install has done so far is what its loop allows
InstallOrder ==
  /\ Len(installer.ran) <= Len(steps)
  /\ installer.ran = SubSeq(steps, 1, Len(installer.ran))
  /\ \A k \in 1..Len(installer.ran) : \A j \in 1..(k - 1) : j \in ReturnedTrue
  /\ ReturnedFalse # {} => installer.result = "false"
  /\ installer.result = "false" => ReturnedFalse = {Len(installer.ran)}
  /\ installer.result = "true" <=> (InstallOver /\ ReturnedTrue = 1..Len(steps))

\* C25: install runs its seven steps in the fixed order prerequisites,
\* download, extract, configure, environment, test, startup scripts; a step
\* runs only if every earlier step returned true; after the first step that
\* returns false no later step runs and install returns false; install
\* returns true exactly when all seven steps returned true; and install
\* always terminates
C25_InstallSteps == []InstallOrder /\ <>InstallOver

\* install has returned False at its fourth step, the three before it
\* having returned True
C25_Witness ==
  /\ installer.result = "false" /\ installer.ran = SubSeq(steps, 1, 4)
  /\ ReturnedTrue = 1..3


====
